---- MODULE Spec2Model ----
(***************************************************************************)
(* City designer: road network generation, park/fountain layout, automatic *)
(* building generation and interactive building placement.                 *)
(*                                                                         *)
(* Points are pairs <<x, y>> of integers.  A road is a record              *)
(* [points, width].  A park or fountain is a sequence of boundary points.  *)
(* A building is a record [x, y, width, depth, height, type].  Building    *)
(* coordinates are floats in the program; the model draws them from        *)
(* integers and footprint sizes from even integers, on which every         *)
(* comparison of the placement code is exact.                              *)
(***************************************************************************)
EXTENDS Integers, Sequences, FiniteSets, TLC

VARIABLES
    screenWidth,    \* CityGenerator::screenWidth / RoadGenerator::screenWidth
    screenHeight,   \* CityGenerator::screenHeight / RoadGenerator::screenHeight
    roads,          \* CityData::roads (the list generateRoads returned)
    parks,          \* CityData::parks
    fountain,       \* CityData::fountain
    buildings,      \* CityData::buildings
    isGenerated,    \* CityData::isGenerated
    pc,             \* position of the single thread of control
    inCity,         \* TRUE while generateRoads runs on behalf of generateCity
    config,         \* the CityConfig passed to the running call
    nodes,          \* generateRandomRoads: local node pool
    loopI,          \* loop counter of the running loop (roads made / attempts)
    localRoads,     \* generateRandomRoads: local result vector
    lastResult,     \* outcome of the last tryPlaceBuilding call
    lastClick,      \* arguments of the last tryPlaceBuilding call
    lastLine,       \* end points of the createRoad call made on its own
    file,           \* lines of saves/<name>.json; <<>> while there is no file
    savedCity,      \* history: <<the CityData the file was written from>>
    cars,           \* TrafficGenerator::trafficData.cars
    parkAreas,      \* TrafficGenerator::parkAreas
    fountainArea,   \* TrafficGenerator::fountainArea
    trafficScreen,  \* TrafficGenerator::screenWidth, screenHeight
    spawn,          \* generateTraffic: numCars, i and attemptedCars
    updates,        \* number of updateTraffic calls since generateTraffic
    lastTick,       \* history: deltaTime of the last updateTraffic call and
                    \* the cars as they were after its cruising step
    circleTest,     \* a circle, a query point and the answers of the two
                    \* isInsideCircle functions for them
    keysPressed,    \* InputHandler::keysPressed
    glfwKeys,       \* the keys held down, as glfwGetKey reports them
    lastFrame       \* history: the keys held at the last processInput call
                    \* and the keys isKeyJustPressed returned true for in it

vars == <<screenWidth, screenHeight, roads, parks, fountain, buildings,
          isGenerated, pc, inCity, config, nodes, loopI, localRoads,
          lastResult, lastClick, lastLine, file, savedCity, cars, parkAreas,
          fountainArea, trafficScreen, spawn, updates, lastTick, circleTest,
          keysPressed, glfwKeys, lastFrame>>

cityVars == <<roads, parks, fountain, buildings, isGenerated>>
placeVars == <<lastResult, lastClick>>
randomVars == <<nodes, loopI, localRoads>>
trafficVars == <<cars, parkAreas, fountainArea, trafficScreen, spawn, updates,
                 lastTick>>
fileVars == <<file, savedCity>>
inputVars == <<keysPressed, glfwKeys, lastFrame>>
featureVars == <<lastLine, fileVars, trafficVars, circleTest, inputVars>>

(***************************************************************************)
(* Bounds of the model.                                                    *)
(***************************************************************************)
MaxLayout == 3          \* largest layoutSize for the Grid and Radial patterns
MaxRandomLayout == 1    \* largest layoutSize for the Random pattern
MaxBuildings == 3       \* longest building list explored by placement
MaxParks == 2           \* largest numParks
MaxNumBuildings == 1    \* largest numBuildings of automatic generation

(***************************************************************************)
(* Integer helpers.  C++ integer division truncates toward zero.           *)
(***************************************************************************)
Abs(a) == IF a < 0 THEN -a ELSE a

Min(a, b) == IF a < b THEN a ELSE b

Max(a, b) == IF a > b THEN a ELSE b

TruncDiv(a, b) ==
    IF (a >= 0) = (b > 0) THEN Abs(a) \div Abs(b) ELSE -(Abs(a) \div Abs(b))

CeilDiv(a, b) == (a + b - 1) \div b

(***************************************************************************)
(* Rasterization primitives (algorithms.h declares them).                  *)
(***************************************************************************)
\* one iteration of the rasterization loop on the state s = [x, y, err, acc,
\* done]; c holds dx, dy, sx, sy and the end point.  A finished state is left
\* as it is.
BresenhamStep(s, c) ==
    IF s.done THEN s
    ELSE LET out == Append(s.acc, <<s.x, s.y>>) IN
         IF s.x = c.x1 /\ s.y = c.y1
         THEN [s EXCEPT !.acc = out, !.done = TRUE]
         ELSE LET e2 == 2 * s.err
                  stepX == e2 > -c.dy
                  stepY == e2 < c.dx
                  errA == IF stepX THEN s.err - c.dy ELSE s.err
                  errB == IF stepY THEN errA + c.dx ELSE errA
              IN [x |-> IF stepX THEN s.x + c.sx ELSE s.x,
                  y |-> IF stepY THEN s.y + c.sy ELSE s.y,
                  err |-> errB, acc |-> out, done |-> FALSE]

BresenhamStep4(s, c) == BresenhamStep(BresenhamStep(BresenhamStep(BresenhamStep(s, c), c), c), c)

BresenhamStep16(s, c) == BresenhamStep4(BresenhamStep4(BresenhamStep4(BresenhamStep4(s, c), c), c), c)

\* the loop, sixteen iterations per level of recursion
RECURSIVE BresenhamLoop(_, _)
BresenhamLoop(s, c) ==
    IF s.done THEN s.acc ELSE BresenhamLoop(BresenhamStep16(s, c), c)

bresenhamLine(x0, y0, x1, y1) ==
    LET dx == Abs(x1 - x0)
        dy == Abs(y1 - y0)
    IN BresenhamLoop([x |-> x0, y |-> y0, err |-> dx - dy, acc |-> <<>>,
                      done |-> FALSE],
                     [dx |-> dx, dy |-> dy,
                      sx |-> IF x0 < x1 THEN 1 ELSE -1,
                      sy |-> IF y0 < y1 THEN 1 ELSE -1,
                      x1 |-> x1, y1 |-> y1])

\* one iteration of the octant loop on the state s = [x, y, d, acc]; a
\* finished state (x > y) is left as it is.
CircleStep(s, cx, cy) ==
    IF s.x > s.y THEN s
    ELSE LET x == s.x
             y == s.y
             out == s.acc \o << <<cx + x, cy + y>>, <<cx - x, cy + y>>,
                                 <<cx + x, cy - y>>, <<cx - x, cy - y>>,
                                 <<cx + y, cy + x>>, <<cx - y, cy + x>>,
                                 <<cx + y, cy - x>>, <<cx - y, cy - x>> >>
         IN IF s.d < 0
            THEN [x |-> x + 1, y |-> y, d |-> s.d + 2 * x + 3, acc |-> out]
            ELSE [x |-> x + 1, y |-> y - 1, d |-> s.d + 2 * (x - y) + 5, acc |-> out]

CircleStep4(s, cx, cy) == CircleStep(CircleStep(CircleStep(CircleStep(s, cx, cy), cx, cy), cx, cy), cx, cy)

RECURSIVE CircleLoop(_, _, _)
CircleLoop(s, cx, cy) ==
    IF s.x > s.y THEN s.acc ELSE CircleLoop(CircleStep4(s, cx, cy), cx, cy)

midpointCircle(centerX, centerY, radius) ==
    IF radius < 0 THEN <<>>
    ELSE IF radius = 0 THEN << <<centerX, centerY>> >>
    ELSE CircleLoop([x |-> 0, y |-> radius, d |-> 1 - radius, acc |-> <<>>],
                    centerX, centerY)

(***************************************************************************)
(* CityConfig (city_config.h).                                             *)
(***************************************************************************)
Patterns == {"GRID", "RADIAL", "RANDOM"}

DefaultConfig ==
    [numBuildings |-> 0, layoutSize |-> 1, roadPattern |-> "GRID",
     roadWidth |-> 8, skylineType |-> "MIXED", parkRadius |-> 3,
     numParks |-> 0, fountainRadius |-> 0]

(***************************************************************************)
(* Canvas sizes the generators are constructed with: a wide, a tall and a  *)
(* square canvas, and the smallest canvas that holds the 50-unit margins.  *)
(***************************************************************************)
Screens == {<<240, 200>>, <<200, 240>>, <<200, 200>>, <<100, 100>>}

(***************************************************************************)
(* RoadGenerator (road_generator.cpp).                                     *)
(***************************************************************************)
gridMargin == 50

\* createRoad with the line drawn from the second end point to the first
createRoadReversed(x0, y0, x1, y1, width) ==
    [points |-> bresenhamLine(x1, y1, x0, y0), width |-> width]

createRoad(x0, y0, x1, y1, width) ==
    [points |-> bresenhamLine(x0, y0, x1, y1), width |-> width]

\* spacing of the grid lines; the caller guards layoutSize # 0
gridSpacing(cfg, W) == TruncDiv(W - 2 * gridMargin, cfg.layoutSize)

\* generateGridRoads with both loops running i < layoutSize instead of i <= layoutSize
generateGridRoadsOffByOne(cfg, W, H, spacing) ==
    LET n == IF cfg.layoutSize > 0 THEN cfg.layoutSize ELSE 0
        horizontal == [k \in 1..n |->
            createRoad(gridMargin, gridMargin + (k - 1) * spacing,
                       W - gridMargin, gridMargin + (k - 1) * spacing,
                       cfg.roadWidth)]
        vertical == [k \in 1..n |->
            createRoad(gridMargin + (k - 1) * spacing, gridMargin,
                       gridMargin + (k - 1) * spacing, H - gridMargin,
                       cfg.roadWidth)]
    IN horizontal \o vertical

\* the two loops of generateGridRoads, for a given spacing
generateGridRoads(cfg, W, H, spacing) ==
    LET n == IF cfg.layoutSize + 1 > 0 THEN cfg.layoutSize + 1 ELSE 0
        horizontal == [k \in 1..n |->
            createRoad(gridMargin, gridMargin + (k - 1) * spacing,
                       W - gridMargin, gridMargin + (k - 1) * spacing,
                       cfg.roadWidth)]
        vertical == [k \in 1..n |->
            createRoad(gridMargin + (k - 1) * spacing, gridMargin,
                       gridMargin + (k - 1) * spacing, H - gridMargin,
                       cfg.roadWidth)]
    IN horizontal \o vertical

\* <<cos, sin>> of 2*pi*i/N for i = 0..N-1, as the double value times 10^6
\* truncated toward zero
TrigMicro(N) ==
    CASE N = 1 -> << <<1000000, 0>> >>
      [] N = 2 -> << <<1000000, 0>>, <<-1000000, 0>> >>
      [] N = 3 -> << <<1000000, 0>>, <<-499999, 866025>>, <<-500000, -866025>> >>
      [] N = 4 -> << <<1000000, 0>>, <<0, 1000000>>, <<-1000000, 0>>,
                     <<0, -1000000>> >>
      [] N = 5 -> << <<1000000, 0>>, <<309016, 951056>>, <<-809016, 587785>>,
                     <<-809016, -587785>>, <<309016, -951056>> >>
      [] N = 6 -> << <<1000000, 0>>, <<500000, 866025>>, <<-499999, 866025>>,
                     <<-1000000, 0>>, <<-500000, -866025>>, <<500000, -866025>> >>
      [] OTHER -> <<>>

\* static_cast<int>(maxRadius * cos(angle)): truncation toward zero
ScaleTrunc(r, micro) == TruncDiv(r * micro, 1000000)

radialMaxRadius(W, H) == Min(W, H) \div 2 - 50

\* the inner loop of generateRadialRoads: one road per 8 boundary points
ringStep == 8

\* ringRoads connecting each sampled point to the next one without the wrap
\* around (the last road of a ring ends at the last boundary point)
ringRoadsNoWrap(circlePoints, width) ==
    LET p == Len(circlePoints) IN
    [k \in 1..CeilDiv(p, ringStep) |->
        LET i == ringStep * (k - 1)
            nextIdx == Min(i + ringStep, p - 1)
        IN createRoad(circlePoints[i + 1][1], circlePoints[i + 1][2],
                      circlePoints[nextIdx + 1][1], circlePoints[nextIdx + 1][2],
                      width)]

ringRoads(circlePoints, width) ==
    LET p == Len(circlePoints) IN
    [k \in 1..CeilDiv(p, ringStep) |->
        LET i == ringStep * (k - 1)
            nextIdx == (i + ringStep) % p
        IN createRoad(circlePoints[i + 1][1], circlePoints[i + 1][2],
                      circlePoints[nextIdx + 1][1], circlePoints[nextIdx + 1][2],
                      width)]

ringRadius(maxRadius, ring, numRings) == TruncDiv(maxRadius * ring, numRings)

RECURSIVE radialRings(_, _, _, _, _, _)
radialRings(ring, numRings, centerX, centerY, maxRadius, width) ==
    IF ring > numRings THEN <<>>
    ELSE ringRoads(midpointCircle(centerX, centerY,
                                  ringRadius(maxRadius, ring, numRings)), width)
         \o radialRings(ring + 1, numRings, centerX, centerY, maxRadius, width)

radialSpokes(cfg, W, H) ==
    LET centerX == W \div 2
        centerY == H \div 2
        numSpokes == cfg.layoutSize
        maxRadius == radialMaxRadius(W, H)
    IN [k \in 1..numSpokes |->
           createRoad(centerX, centerY,
                      centerX + ScaleTrunc(maxRadius, TrigMicro(numSpokes)[k][1]),
                      centerY + ScaleTrunc(maxRadius, TrigMicro(numSpokes)[k][2]),
                      cfg.roadWidth)]

generateRadialRoads(cfg, W, H) ==
    radialSpokes(cfg, W, H)
    \o radialRings(1, TruncDiv(cfg.layoutSize, 2), W \div 2, H \div 2,
                   radialMaxRadius(W, H), cfg.roadWidth)

\* values the model lets randomPoint(50) return
RandomPoints(W, H) ==
    {p \in {<<50, 50>>, <<56, 53>>} :
        /\ p[1] >= 50 /\ p[1] <= W - 50
        /\ p[2] >= 50 /\ p[2] <= H - 50}

\* the four fixed nodes appended after the random ones
edgeNodes(W, H) ==
    << <<100, 100>>, <<W - 100, 100>>, <<100, H - 100>>, <<W - 100, H - 100>> >>

randomNumRoads(cfg) == cfg.layoutSize * 3

randomNumNodes(cfg) == IF cfg.layoutSize > 0 THEN cfg.layoutSize * 2 ELSE 0

\* values the model lets nodeDist(0, size-1) return: the first and last index
IndexDraws(size) == {0, size - 1}

\* one iteration of the connection loop of generateRandomRoads
randomConnect(acc, pool, idx1, idx2, width) ==
    IF idx1 # idx2
    THEN Append(acc, createRoad(pool[idx1 + 1][1], pool[idx1 + 1][2],
                                pool[idx2 + 1][1], pool[idx2 + 1][2], width))
    ELSE acc

(***************************************************************************)
(* Actions of the road generator.                                          *)
(***************************************************************************)
PatternPc(pattern) ==
    CASE pattern = "GRID" -> "grid"
      [] pattern = "RADIAL" -> "radial"
      [] pattern = "RANDOM" -> "random"
      [] OTHER -> "grid"

\* generateRoads returns `result` to its caller
ReturnRoads(result) ==
    /\ roads' = result
    /\ pc' = IF inCity THEN "parks" ELSE "idle"

RoadConfigs ==
    {[DefaultConfig EXCEPT !.roadPattern = p, !.layoutSize = n] :
        p \in {"GRID", "RADIAL"}, n \in 0..MaxLayout}
    \cup {[DefaultConfig EXCEPT !.roadPattern = "RANDOM", !.layoutSize = n] :
        n \in 0..MaxRandomLayout}

\* RoadGenerator::generateRoads called on its own: the switch on the pattern
GenerateRoads(cfg) ==
    /\ pc = "idle"
    /\ config' = cfg
    /\ inCity' = FALSE
    /\ roads' = <<>>
    /\ pc' = PatternPc(cfg.roadPattern)
    /\ UNCHANGED <<featureVars, screenWidth, screenHeight, parks, fountain, buildings,
                   isGenerated, randomVars, placeVars>>

\* generateGridRoads.  With layoutSize = 0 the division that computes the
\* spacing is undefined: the build either traps (x86) or goes on with a
\* quotient of 0 (targets whose divide instruction does not trap).
GenerateGridRoads ==
    /\ pc = "grid"
    /\ IF config.layoutSize = 0
       THEN \/ /\ pc' = "crashed"
               /\ UNCHANGED roads
            \/ ReturnRoads(generateGridRoads(config, screenWidth, screenHeight, 0))
       ELSE ReturnRoads(generateGridRoads(config, screenWidth, screenHeight,
                                          gridSpacing(config, screenWidth)))
    /\ UNCHANGED <<featureVars, screenWidth, screenHeight, parks, fountain, buildings,
                   isGenerated, inCity, config, randomVars, placeVars>>

GenerateRadialRoads ==
    /\ pc = "radial"
    /\ ReturnRoads(generateRadialRoads(config, screenWidth, screenHeight))
    /\ UNCHANGED <<featureVars, screenWidth, screenHeight, parks, fountain, buildings,
                   isGenerated, inCity, config, randomVars, placeVars>>

\* generateRandomRoads up to the connection loop: the node pool
RandomRoadsBegin ==
    /\ pc = "random"
    /\ \E rnd \in [1..randomNumNodes(config) -> RandomPoints(screenWidth, screenHeight)] :
           nodes' = rnd \o edgeNodes(screenWidth, screenHeight)
    /\ loopI' = 0
    /\ localRoads' = <<>>
    /\ pc' = "random_loop"
    /\ UNCHANGED <<featureVars, screenWidth, screenHeight, cityVars, inCity, config, placeVars>>

\* one iteration of the connection loop
RandomRoadsStep ==
    /\ pc = "random_loop"
    /\ loopI < randomNumRoads(config)
    /\ \E idx1 \in IndexDraws(Len(nodes)), idx2 \in IndexDraws(Len(nodes)) :
           localRoads' = randomConnect(localRoads, nodes, idx1, idx2, config.roadWidth)
    /\ loopI' = loopI + 1
    /\ UNCHANGED <<featureVars, screenWidth, screenHeight, cityVars, pc, inCity, config,
                   nodes, placeVars>>

\* the loop is over: return the local vector
RandomRoadsReturn ==
    /\ pc = "random_loop"
    /\ loopI >= randomNumRoads(config)
    /\ ReturnRoads(localRoads)
    /\ nodes' = <<>>
    /\ loopI' = 0
    /\ localRoads' = <<>>
    /\ UNCHANGED <<featureVars, screenWidth, screenHeight, parks, fountain, buildings,
                   isGenerated, inCity, config, placeVars>>

RoadSteps ==
    \/ GenerateGridRoads
    \/ GenerateRadialRoads
    \/ RandomRoadsBegin
    \/ RandomRoadsStep
    \/ RandomRoadsReturn

\* no save file has been written
InitFile ==
    /\ file = <<>>
    /\ savedCity = <<>>

\* the keys of the model: cycle the skyline type (L) and toggle the
\* fountain radius (F)
Keys == {"L", "F"}

\* no circle has been put to the two isInsideCircle functions
NoCircleTest == [circlePoints |-> <<>>, x |-> 0, y |-> 0,
                 traffic |-> "unasked", placement |-> "unasked"]

\* no updateTraffic call since the cars were generated
NoTick == [deltaTime |-> 0, cruised |-> <<>>, road |-> <<>>]

\* a TrafficGenerator as constructed: 800 x 600, no cars
InitTrafficGenerator ==
    /\ cars = <<>>
    /\ parkAreas = <<>>
    /\ fountainArea = <<>>
    /\ trafficScreen = <<800, 600>>
    /\ spawn = [numCars |-> 0, i |-> 0, attemptedCars |-> 0]
    /\ updates = 0
    /\ lastTick = NoTick

\* an InputHandler as constructed: the key states are zeroed, no key is held
InitInput ==
    /\ keysPressed = [key \in Keys |-> FALSE]
    /\ glfwKeys = {}
    /\ lastFrame = [held |-> {}, fired |-> {}]

\* the state of the features before their first call
InitFeatures ==
    /\ lastLine = <<>>
    /\ InitFile
    /\ InitTrafficGenerator
    /\ circleTest = NoCircleTest
    /\ InitInput

\* an empty CityData and no call under way
InitCityData ==
    /\ roads = <<>>
    /\ parks = <<>>
    /\ fountain = <<>>
    /\ buildings = <<>>
    /\ isGenerated = FALSE
    /\ pc = "idle"
    /\ inCity = FALSE
    /\ config = DefaultConfig
    /\ nodes = <<>>
    /\ loopI = 0
    /\ localRoads = <<>>
    /\ lastResult = "none"
    /\ lastClick = <<>>

InitCommon ==
    /\ InitFeatures
    /\ InitCityData

InitRoads ==
    /\ \E s \in Screens : screenWidth = s[1] /\ screenHeight = s[2]
    /\ InitCommon

NextRoads ==
    \/ \E cfg \in RoadConfigs : GenerateRoads(cfg)
    \/ RoadSteps

SpecRoads == InitRoads /\ [][NextRoads]_vars

(***************************************************************************)
(* BuildingPlacementSystem (building_placement_system.cpp).                *)
(* Coordinates and sizes are integers; sizes are even, so width / 2.0f is  *)
(* the integer half.  The circle test is evaluated in exact arithmetic.    *)
(***************************************************************************)
screenMargin == 60

roadBuffer == 20

parkBuffer == 35

fountainBuffer == 35

buildingBuffer == 25

\* float height = 0.15f, in hundredths
placedHeight == 15

\* the boundary test of tryPlaceBuilding
outsideBoundary(x, y, width, depth, W, H) ==
    LET halfWidth == width \div 2
        halfDepth == depth \div 2
    IN \/ x - halfWidth < screenMargin
       \/ x + halfWidth > W - screenMargin
       \/ y - halfDepth < screenMargin
       \/ y + halfDepth > H - screenMargin

\* collidesWithRoads testing the bare footprint, without the road buffer
collidesWithRoadsNoBuffer(x, y, width, depth, rds) ==
    LET halfWidth == width \div 2
        halfDepth == depth \div 2
    IN \E r \in 1..Len(rds) : \E i \in 1..Len(rds[r].points) :
          LET point == rds[r].points[i] IN
          /\ point[1] >= x - halfWidth
          /\ point[1] <= x + halfWidth
          /\ point[2] >= y - halfDepth
          /\ point[2] <= y + halfDepth

collidesWithRoads(x, y, width, depth, rds) ==
    LET halfWidth == width \div 2
        halfDepth == depth \div 2
        buildingLeft == x - halfWidth
        buildingRight == x + halfWidth
        buildingTop == y - halfDepth
        buildingBottom == y + halfDepth
    IN \E r \in 1..Len(rds) : \E i \in 1..Len(rds[r].points) :
          LET point == rds[r].points[i] IN
          /\ point[1] >= buildingLeft - roadBuffer
          /\ point[1] <= buildingRight + roadBuffer
          /\ point[2] >= buildingTop - roadBuffer
          /\ point[2] <= buildingBottom + roadBuffer

RECURSIVE SumCoord(_, _, _)
SumCoord(pts, axis, i) ==
    IF i > Len(pts) THEN 0 ELSE pts[i][axis] + SumCoord(pts, axis, i + 1)

\* centre of a stored circle: the mean of its boundary points.  The point
\* lists of the model come from midpointCircle, whose points are symmetric
\* about the centre, so the division is exact.
circleCenter(pts) ==
    <<SumCoord(pts, 1, 1) \div Len(pts), SumCoord(pts, 2, 1) \div Len(pts)>>

\* square of the radius: the largest squared distance from the centre
circleRadiusSquared(pts) ==
    LET c == circleCenter(pts)
        DistSq(i) == (pts[i][1] - c[1]) * (pts[i][1] - c[1])
                     + (pts[i][2] - c[2]) * (pts[i][2] - c[2])
    IN CHOOSE m \in {DistSq(i) : i \in 1..Len(pts)} :
          \A i \in 1..Len(pts) : DistSq(i) <= m

Isqrt(m) == CHOOSE k \in 0..m : k * k <= m /\ (k + 1) * (k + 1) > m

\* distanceSquared < (sqrt(radiusSq) + buffer)^2, without the square root:
\* with L = distanceSquared - radiusSq - buffer^2 the test is
\* L < 2 * buffer * sqrt(radiusSq)
insideBufferedRadius(distanceSquared, radiusSq, buffer) ==
    LET L == distanceSquared - radiusSq - buffer * buffer IN
    \/ L < 0
    \/ /\ L < 2 * buffer * (Isqrt(radiusSq) + 1)
       /\ L * L < 4 * buffer * buffer * radiusSq

\* the box-against-circle test shared by collidesWithParks and
\* collidesWithFountain
boxHitsCircle(x, y, width, depth, pts, buffer) ==
    LET c == circleCenter(pts)
        halfWidth == width \div 2
        halfDepth == depth \div 2
        closestX == Max(x - halfWidth - buffer, Min(c[1], x + halfWidth + buffer))
        closestY == Max(y - halfDepth - buffer, Min(c[2], y + halfDepth + buffer))
        dx == closestX - c[1]
        dy == closestY - c[2]
    IN insideBufferedRadius(dx * dx + dy * dy, circleRadiusSquared(pts), buffer)

collidesWithParks(x, y, width, depth, prks) ==
    \E k \in 1..Len(prks) :
        /\ prks[k] # <<>>
        /\ boxHitsCircle(x, y, width, depth, prks[k], parkBuffer)

collidesWithFountain(x, y, width, depth, fnt) ==
    /\ fnt # <<>>
    /\ boxHitsCircle(x, y, width, depth, fnt, fountainBuffer)

\* collidesWithBuildings without the buffer around the candidate
collidesWithBuildingsNoBuffer(x, y, width, depth, blds) ==
    LET halfWidth == width \div 2
        halfDepth == depth \div 2
    IN \E k \in 1..Len(blds) :
          LET existing == blds[k] IN
          ~ \/ x + halfWidth < existing.x - existing.width \div 2
            \/ x - halfWidth > existing.x + existing.width \div 2
            \/ y + halfDepth < existing.y - existing.depth \div 2
            \/ y - halfDepth > existing.y + existing.depth \div 2

collidesWithBuildings(x, y, width, depth, blds) ==
    LET halfWidth == width \div 2
        halfDepth == depth \div 2
        buildingLeft == x - halfWidth
        buildingRight == x + halfWidth
        buildingTop == y - halfDepth
        buildingBottom == y + halfDepth
    IN \E k \in 1..Len(blds) :
          LET existing == blds[k]
              existingLeft == existing.x - existing.width \div 2
              existingRight == existing.x + existing.width \div 2
              existingTop == existing.y - existing.depth \div 2
              existingBottom == existing.y + existing.depth \div 2
          IN ~ \/ buildingRight + buildingBuffer < existingLeft
               \/ buildingLeft - buildingBuffer > existingRight
               \/ buildingBottom + buildingBuffer < existingTop
               \/ buildingTop - buildingBuffer > existingBottom

\* tryPlaceBuilding with the fountain test before the park test
placementOutcomeFountainFirst(x, y, width, depth, blds, rds, prks, fnt, W, H) ==
    IF outsideBoundary(x, y, width, depth, W, H) THEN "boundary"
    ELSE IF collidesWithRoads(x, y, width, depth, rds) THEN "road"
    ELSE IF collidesWithFountain(x, y, width, depth, fnt) THEN "fountain"
    ELSE IF collidesWithParks(x, y, width, depth, prks) THEN "park"
    ELSE IF collidesWithBuildings(x, y, width, depth, blds) THEN "building"
    ELSE "placed"

\* the chain of checks of tryPlaceBuilding: the message it prints, or "placed"
placementOutcome(x, y, width, depth, blds, rds, prks, fnt, W, H) ==
    IF outsideBoundary(x, y, width, depth, W, H) THEN "boundary"
    ELSE IF collidesWithRoads(x, y, width, depth, rds) THEN "road"
    ELSE IF collidesWithParks(x, y, width, depth, prks) THEN "park"
    ELSE IF collidesWithFountain(x, y, width, depth, fnt) THEN "fountain"
    ELSE IF collidesWithBuildings(x, y, width, depth, blds) THEN "building"
    ELSE "placed"

\* the building list after the call, with the depth stored as the width too
buildingsAfterSquare(outcome, blds, x, y, width, depth) ==
    IF outcome = "placed"
    THEN Append(blds, [x |-> x, y |-> y, width |-> width, depth |-> width,
                       height |-> placedHeight, type |-> "MID_RISE"])
    ELSE blds

\* the building list after the call: emplace_back on acceptance only
buildingsAfter(outcome, blds, x, y, width, depth) ==
    IF outcome = "placed"
    THEN Append(blds, [x |-> x, y |-> y, width |-> width, depth |-> depth,
                       height |-> placedHeight, type |-> "MID_RISE"])
    ELSE blds

\* click positions of the model
Clicks ==
    {<<69, 100>>, <<100, 120>>, <<130, 100>>, <<150, 100>>, <<185, 100>>, <<195, 100>>,
     <<195, 120>>, <<195, 145>>, <<195, 146>>, <<195, 191>>, <<230, 146>>,
     <<241, 100>>}

\* values of config.standardWidth and config.standardDepth
StandardSizes == {<<20, 20>>, <<30, 20>>}

TryPlaceBuilding(worldX, worldY, width, depth) ==
    /\ pc = "idle"
    /\ Len(buildings) < MaxBuildings
    /\ LET outcome == placementOutcome(worldX, worldY, width, depth, buildings,
                                       roads, parks, fountain,
                                       screenWidth, screenHeight)
       IN /\ buildings' = buildingsAfter(outcome, buildings, worldX, worldY,
                                         width, depth)
          /\ lastResult' = outcome
    /\ lastClick' = <<worldX, worldY, width, depth>>
    /\ UNCHANGED <<featureVars, screenWidth, screenHeight, roads, parks, fountain,
                   isGenerated, pc, inCity, config, randomVars>>

\* Cities interactive placement starts from, on a 320 x 260 canvas: two
\* roads of the Random pattern (a short one between two random nodes and one
\* between two of the fixed nodes), a park, a fountain (a loaded city keeps
\* its fountain in CityData::fountain), and a building left by automatic
\* generation.
PlaceScreen == <<320, 260>>

PlaceRoads ==
    LET pool == << <<50, 50>>, <<56, 53>> >> \o edgeNodes(PlaceScreen[1], PlaceScreen[2])
    IN randomConnect(randomConnect(<<>>, pool, 0, 1, DefaultConfig.roadWidth),
                     pool, 2, 4, DefaultConfig.roadWidth)

GeneratedBuilding ==
    [x |-> 225, y |-> 180, width |-> 40, depth |-> 30, height |-> 5000,
     type |-> "HIGH_RISE"]

PlaceCities ==
    {[parks |-> <<>>, fountain |-> <<>>, buildings |-> <<>>],
     [parks |-> <<midpointCircle(100, 100, 3)>>, fountain |-> <<>>,
      buildings |-> <<>>],
     [parks |-> <<>>, fountain |-> midpointCircle(100, 100, 3),
      buildings |-> <<>>],
     [parks |-> <<midpointCircle(100, 100, 3)>>,
      fountain |-> midpointCircle(110, 100, 3),
      buildings |-> <<GeneratedBuilding>>]}

InitPlace ==
    /\ InitFeatures
    /\ screenWidth = PlaceScreen[1]
    /\ screenHeight = PlaceScreen[2]
    /\ roads = PlaceRoads
    /\ \E city \in PlaceCities :
          /\ parks = city.parks
          /\ fountain = city.fountain
          /\ buildings = city.buildings
    /\ isGenerated = TRUE
    /\ pc = "idle"
    /\ inCity = FALSE
    /\ config = DefaultConfig
    /\ nodes = <<>>
    /\ loopI = 0
    /\ localRoads = <<>>
    /\ lastResult = "none"
    /\ lastClick = <<>>

NextPlace ==
    \E click \in Clicks, size \in StandardSizes :
        TryPlaceBuilding(click[1], click[2], size[1], size[2])

SpecPlace == InitPlace /\ [][NextPlace]_vars

(***************************************************************************)
(* CityGenerator (city_generator.cpp).                                     *)
(***************************************************************************)
\* generateParks: `spots` are the positions drawn for the parks, in order
generateParks(cfg, W, H, spots) ==
    IF cfg.numParks = 0 THEN <<>>
    ELSE LET drawn == [i \in 1..cfg.numParks |->
                          midpointCircle(spots[i][1], spots[i][2], cfg.parkRadius)]
         IN IF cfg.fountainRadius > 0
            THEN Append(drawn, midpointCircle(W \div 2, H \div 2, cfg.fountainRadius))
            ELSE drawn

\* minDistance of isValidBuildingPosition
minParkDistance == 80

\* isValidBuildingPosition: the distance to the first boundary point of every
\* park is at least 80 (distance < 80 compared on the squares)
isValidBuildingPosition(x, y, width, depth, prks) ==
    \A k \in 1..Len(prks) :
        prks[k] # <<>> =>
            LET dx == x - prks[k][1][1]
                dy == y - prks[k][1][2]
            IN ~ (dx * dx + dy * dy < minParkDistance * minParkDistance)

\* the building type for a skyline and a draw of typeDist(0, 2)
skylineBuildingType(skyline, typeChoice) ==
    CASE skyline = "LOW_RISE" -> "LOW_RISE"
      [] skyline = "MID_RISE" -> "MID_RISE"
      [] skyline = "MIXED" ->
            IF typeChoice = 0 THEN "LOW_RISE"
            ELSE IF typeChoice = 1 THEN "MID_RISE" ELSE "HIGH_RISE"
      [] skyline = "SKYSCRAPER" ->
            IF typeChoice <= 1 THEN "HIGH_RISE" ELSE "MID_RISE"

\* values the model lets the height distributions return, in hundredths
HeightDraw(type) ==
    CASE type = "LOW_RISE" -> 1000
      [] type = "MID_RISE" -> 4000
      [] type = "HIGH_RISE" -> 12000

\* values the model lets xDist/yDist of generateParks return
ParkSpots(W, H) ==
    {p \in {<<100, 100>>, <<W - 100, H - 100>>} :
        /\ p[1] >= 100 /\ p[1] <= W - 100
        /\ p[2] >= 100 /\ p[2] <= H - 100}

\* values the model lets xDist/yDist of generateBuildings return
BuildingSpots(W, H) ==
    {p \in {<<120, 60>>, <<W - 50, H - 50>>} :
        /\ p[1] >= 50 /\ p[1] <= W - 50
        /\ p[2] >= 50 /\ p[2] <= H - 50}

\* values the model lets widthDist/depthDist return
BuildingSizes == {<<20, 40>>}

maxAttemptsFactor == 10

\* canvas of the city generator
CityScreen == <<240, 200>>

Skylines == {"LOW_RISE", "MID_RISE", "SKYSCRAPER", "MIXED"}

\* configurations generateCity is called with: every road pattern, every
\* park count with and without a fountain, every building count and skyline
CityConfigs ==
    {[DefaultConfig EXCEPT !.roadPattern = p, !.numParks = 1,
                           !.fountainRadius = 2, !.numBuildings = 1] :
        p \in Patterns}
    \cup {[DefaultConfig EXCEPT !.numParks = n, !.fountainRadius = f] :
        n \in 0..MaxParks, f \in {0, 2}}
    \cup {[DefaultConfig EXCEPT !.numParks = 1, !.numBuildings = n,
                                !.skylineType = sk] :
        n \in 0..MaxNumBuildings, sk \in Skylines}

\* generateCity whose clear() leaves the building list as it was
GenerateCityKeepBuildings(cfg) ==
    /\ pc = "idle"
    /\ config' = cfg
    /\ roads' = <<>>
    /\ parks' = <<>>
    /\ fountain' = <<>>
    /\ isGenerated' = FALSE
    /\ inCity' = TRUE
    /\ pc' = PatternPc(cfg.roadPattern)
    /\ UNCHANGED <<featureVars, screenWidth, screenHeight, buildings, randomVars, placeVars>>

\* generateCity up to the call of generateRoads: cityData.clear()
GenerateCity(cfg) ==
    /\ pc = "idle"
    /\ config' = cfg
    /\ roads' = <<>>
    /\ parks' = <<>>
    /\ fountain' = <<>>
    /\ buildings' = <<>>
    /\ isGenerated' = FALSE
    /\ inCity' = TRUE
    /\ pc' = PatternPc(cfg.roadPattern)
    /\ UNCHANGED <<featureVars, screenWidth, screenHeight, randomVars, placeVars>>

\* generateParks storing the fountain circle in CityData::fountain as well
GenerateParksStoringFountain ==
    /\ pc = "parks"
    /\ \E spots \in [1..Max(config.numParks, 0) -> ParkSpots(screenWidth, screenHeight)] :
           parks' = parks \o generateParks(config, screenWidth, screenHeight, spots)
    /\ fountain' = IF config.numParks # 0 /\ config.fountainRadius > 0
                   THEN midpointCircle(screenWidth \div 2, screenHeight \div 2,
                                       config.fountainRadius)
                   ELSE fountain
    /\ pc' = "buildings"
    /\ UNCHANGED <<featureVars, screenWidth, screenHeight, roads, buildings,
                   isGenerated, inCity, config, randomVars, placeVars>>

\* generateParks called by generateCity: the parks and, after them, the
\* fountain circle are appended to CityData::parks
GenerateParks ==
    /\ pc = "parks"
    /\ \E spots \in [1..Max(config.numParks, 0) -> ParkSpots(screenWidth, screenHeight)] :
           parks' = parks \o generateParks(config, screenWidth, screenHeight, spots)
    /\ pc' = "buildings"
    /\ UNCHANGED <<featureVars, screenWidth, screenHeight, roads, fountain, buildings,
                   isGenerated, inCity, config, randomVars, placeVars>>

\* generateBuildings up to its loop
GenerateBuildingsBegin ==
    /\ pc = "buildings"
    /\ pc' = IF config.numBuildings = 0 THEN "finish" ELSE "buildings_loop"
    /\ loopI' = 0
    /\ UNCHANGED <<featureVars, screenWidth, screenHeight, cityVars, inCity, config, nodes,
                   localRoads, placeVars>>

\* the placement loop with one attempt more than its budget
GenerateBuildingsAttemptOverBudget ==
    /\ pc = "buildings_loop"
    /\ Len(buildings) < config.numBuildings
    /\ loopI <= config.numBuildings * maxAttemptsFactor
    /\ loopI' = loopI + 1
    /\ \E spot \in BuildingSpots(screenWidth, screenHeight),
          size \in BuildingSizes, typeChoice \in 0..2 :
          IF isValidBuildingPosition(spot[1], spot[2], size[1], size[2], parks)
          THEN LET type == skylineBuildingType(config.skylineType, typeChoice) IN
               buildings' = Append(buildings,
                   [x |-> spot[1], y |-> spot[2], width |-> size[1],
                    depth |-> size[2], height |-> HeightDraw(type), type |-> type])
          ELSE UNCHANGED buildings
    /\ UNCHANGED <<featureVars, screenWidth, screenHeight, roads, parks, fountain,
                   isGenerated, pc, inCity, config, nodes, localRoads, placeVars>>

\* one iteration of the placement loop; loopI counts the attempts
GenerateBuildingsAttempt ==
    /\ pc = "buildings_loop"
    /\ Len(buildings) < config.numBuildings
    /\ loopI < config.numBuildings * maxAttemptsFactor
    /\ loopI' = loopI + 1
    /\ \E spot \in BuildingSpots(screenWidth, screenHeight),
          size \in BuildingSizes, typeChoice \in 0..2 :
          IF isValidBuildingPosition(spot[1], spot[2], size[1], size[2], parks)
          THEN LET type == skylineBuildingType(config.skylineType, typeChoice) IN
               buildings' = Append(buildings,
                   [x |-> spot[1], y |-> spot[2], width |-> size[1],
                    depth |-> size[2], height |-> HeightDraw(type), type |-> type])
          ELSE UNCHANGED buildings
    /\ UNCHANGED <<featureVars, screenWidth, screenHeight, roads, parks, fountain,
                   isGenerated, pc, inCity, config, nodes, localRoads, placeVars>>

\* the loop of generateBuildings is over
GenerateBuildingsEnd ==
    /\ pc = "buildings_loop"
    /\ ~ (/\ Len(buildings) < config.numBuildings
          /\ loopI < config.numBuildings * maxAttemptsFactor)
    /\ pc' = "finish"
    /\ loopI' = 0
    /\ UNCHANGED <<featureVars, screenWidth, screenHeight, cityVars, inCity, config, nodes,
                   localRoads, placeVars>>

\* generateCity after generateBuildings: the city is marked as generated
GenerateCityEnd ==
    /\ pc = "finish"
    /\ isGenerated' = TRUE
    /\ inCity' = FALSE
    /\ pc' = "idle"
    /\ UNCHANGED <<featureVars, screenWidth, screenHeight, roads, parks, fountain, buildings,
                   config, randomVars, placeVars>>

InitCity ==
    /\ screenWidth = CityScreen[1]
    /\ screenHeight = CityScreen[2]
    /\ InitCommon

NextCity ==
    \/ \E cfg \in CityConfigs : GenerateCity(cfg)
    \/ RoadSteps
    \/ GenerateParks
    \/ GenerateBuildingsBegin
    \/ GenerateBuildingsAttempt
    \/ GenerateBuildingsEnd
    \/ GenerateCityEnd

SpecCity == InitCity /\ [][NextCity]_vars

\* generateBuildings runs in one thread without waiting: an iteration of
\* its loop that can run does run, and so does the exit of the loop
FairBuildingsLoop ==
    /\ WF_vars(GenerateBuildingsAttempt)
    /\ WF_vars(GenerateBuildingsEnd)

SpecCityFair == SpecCity /\ FairBuildingsLoop

(***************************************************************************)
(* A session: generateCity cycles interleaved with interactive placement   *)
(* (input_handler.cpp regenerates on a key press, clicks place buildings). *)
(***************************************************************************)
\* click positions of the session, inside the 60-unit frame of the canvas
SessionClicks == {<<85, 100>>, <<135, 100>>}

\* config.standardWidth and config.standardDepth of the session
SessionSize == <<20, 20>>

\* configurations the session regenerates with
SessionConfigs ==
    {[DefaultConfig EXCEPT !.roadPattern = "GRID", !.numBuildings = 1,
                           !.skylineType = "LOW_RISE"],
     [DefaultConfig EXCEPT !.roadPattern = "RADIAL", !.layoutSize = 2,
                           !.roadWidth = 4, !.numParks = 1,
                           !.fountainRadius = 2],
     [DefaultConfig EXCEPT !.roadPattern = "RANDOM", !.roadWidth = 6]}

NextSession ==
    \/ \E cfg \in SessionConfigs : GenerateCity(cfg)
    \/ RoadSteps
    \/ GenerateParks
    \/ GenerateBuildingsBegin
    \/ GenerateBuildingsAttempt
    \/ GenerateBuildingsEnd
    \/ GenerateCityEnd
    \/ \E click \in SessionClicks :
          TryPlaceBuilding(click[1], click[2], SessionSize[1], SessionSize[2])

SpecSession == InitCity /\ [][NextSession]_vars

(***************************************************************************)
(* CitySerializer (city_serializer.cpp).  The file is a sequence of lines; *)
(* a line is a record [kind, key, a, b]: its layout, the key it names and  *)
(* the texts of the numbers on it.  A number text is a sign and decimal    *)
(* digits.  Floats are held as scaled integers (x, y, width, depth in      *)
(* units, height in hundredths).                                           *)
(***************************************************************************)
RECURSIVE Digits(_)
Digits(n) == IF n < 10 THEN <<n>> ELSE Append(Digits(n \div 10), n % 10)

RECURSIVE DigitsValue(_, _)
DigitsValue(ds, k) == IF k = 0 THEN 0 ELSE 10 * DigitsValue(ds, k - 1) + ds[k]

RECURSIVE Pow10(_)
Pow10(k) == IF k = 0 THEN 1 ELSE 10 * Pow10(k - 1)

\* operator<< of an int
FormatInt(n) == [neg |-> n < 0, digits |-> Digits(Abs(n))]

\* std::stoi of the text of a number
ParseInt(t) ==
    IF t.neg THEN - DigitsValue(t.digits, Len(t.digits))
    ELSE DigitsValue(t.digits, Len(t.digits))

\* significant digits operator<< writes of a float (the stream's precision
\* is left at its default)
floatPrecision == 6

\* the value operator<< writes for a float: rounded to six significant
\* digits
RoundSignificant(v) ==
    LET n == Len(Digits(Abs(v))) IN
    IF n <= floatPrecision THEN v
    ELSE LET p == Pow10(n - floatPrecision)
             r == ((Abs(v) + p \div 2) \div p) * p
         IN IF v < 0 THEN - r ELSE r

\* operator<< of a float
FormatFloat(v) == FormatInt(RoundSignificant(v))

\* std::stof of the text of a number
ParseFloat(t) == ParseInt(t)

buildingTypeToString(type) ==
    CASE type = "LOW_RISE" -> "LOW_RISE"
      [] type = "MID_RISE" -> "MID_RISE"
      [] type = "HIGH_RISE" -> "HIGH_RISE"
      [] OTHER -> "LOW_RISE"

stringToBuildingType(str) ==
    IF str = "LOW_RISE" THEN "LOW_RISE"
    ELSE IF str = "MID_RISE" THEN "MID_RISE"
    ELSE IF str = "HIGH_RISE" THEN "HIGH_RISE"
    ELSE "LOW_RISE"

NoText == [neg |-> FALSE, digits |-> <<>>]

Line(kind, key, a, b) == [kind |-> kind, key |-> key, a |-> a, b |-> b]

\* {"x": <x>, "y": <y>} with or without a trailing comma
PointLine(p) == Line("point", "", FormatInt(p[1]), FormatInt(p[2]))

PointLines(pts) == [i \in 1..Len(pts) |-> PointLine(pts[i])]

RECURSIVE ConcatAll(_, _)
ConcatAll(seqs, k) == IF k = 0 THEN <<>> ELSE ConcatAll(seqs, k - 1) \o seqs[k]

\* the lines saveCity writes for one building
BuildingLines(b) ==
    << Line("obj_open", "", NoText, NoText),
       Line("field", "x", FormatFloat(b.x), NoText),
       Line("field", "y", FormatFloat(b.y), NoText),
       Line("field", "width", FormatFloat(b.width), NoText),
       Line("field", "depth", FormatFloat(b.depth), NoText),
       Line("field", "height", FormatFloat(b.height), NoText),
       Line("type", buildingTypeToString(b.type), NoText, NoText),
       Line("obj_close", "", NoText, NoText) >>

\* the lines saveCity writes for one road
RoadLines(r) ==
    << Line("obj_open", "", NoText, NoText),
       Line("field", "width", FormatInt(r.width), NoText),
       Line("points", "", NoText, NoText) >>
    \o PointLines(r.points)
    \o << Line("arr_close", "", NoText, NoText),
          Line("obj_close", "", NoText, NoText) >>

\* the lines saveCity writes for one park
ParkLines(park) ==
    << Line("arr_open", "", NoText, NoText) >>
    \o PointLines(park)
    \o << Line("arr_close", "", NoText, NoText) >>

\* the lines of the file saveCity writes for a city
saveCity(city) ==
    << Line("open", "", NoText, NoText),
       Line("version", "", NoText, NoText),
       Line("timestamp", "", NoText, NoText),
       Line("section", "buildings", NoText, NoText) >>
    \o ConcatAll([i \in 1..Len(city.buildings) |-> BuildingLines(city.buildings[i])],
                 Len(city.buildings))
    \o << Line("arr_close", "", NoText, NoText),
          Line("section", "roads", NoText, NoText) >>
    \o ConcatAll([i \in 1..Len(city.roads) |-> RoadLines(city.roads[i])],
                 Len(city.roads))
    \o << Line("arr_close", "", NoText, NoText),
          Line("section", "parks", NoText, NoText) >>
    \o ConcatAll([i \in 1..Len(city.parks) |-> ParkLines(city.parks[i])],
                 Len(city.parks))
    \o << Line("arr_close", "", NoText, NoText),
          Line("section", "fountain", NoText, NoText) >>
    \o PointLines(city.fountain)
    \o << Line("arr_close", "", NoText, NoText),
          Line("close", "", NoText, NoText) >>

\* line.find(pattern) != npos, for the patterns loadCity looks for; the
\* pattern of a key is written without its quotes and colon
Contains(line, pattern) ==
    CASE pattern \in {"buildings", "roads", "parks", "fountain"} ->
            line.kind = "section" /\ line.key = pattern
      [] pattern \in {"x", "y"} ->
            \/ line.kind = "point"
            \/ line.kind = "field" /\ line.key = pattern
      [] pattern \in {"width", "depth", "height"} ->
            line.kind = "field" /\ line.key = pattern
      [] pattern = "type" -> line.kind = "type"
      [] pattern = "points" -> line.kind = "points"
      [] pattern = "[" -> line.kind \in {"section", "points", "arr_open"}
      [] pattern = "]" -> line.kind = "arr_close"

\* the locals of loadCity before its loop, with the cleared city
LoadStart ==
    [next |-> 1, section |-> "",
     currentBuilding |-> [x |-> 0, y |-> 0, width |-> 0, depth |-> 0,
                          height |-> 0, type |-> "LOW_RISE"],
     currentRoad |-> [points |-> <<>>, width |-> 8],
     currentPark |-> <<>>,
     inPoints |-> FALSE,
     buildings |-> <<>>, roads |-> <<>>, parks |-> <<>>, fountain |-> <<>>]

\* the section a line leaves the parser in
loadSection(st, line) ==
    IF Contains(line, "buildings") THEN "buildings"
    ELSE IF Contains(line, "roads") THEN "roads"
    ELSE IF Contains(line, "parks") THEN "parks"
    ELSE IF Contains(line, "fountain") THEN "fountain"
    ELSE st.section

\* the buildings block: skipped outside the buildings section
loadBuildingLine(st, line) ==
    IF st.section # "buildings" THEN st
    ELSE IF Contains(line, "x")
    THEN [st EXCEPT !.currentBuilding.x = ParseFloat(line.a)]
    ELSE IF Contains(line, "y")
    THEN [st EXCEPT !.currentBuilding.y = ParseFloat(line.a)]
    ELSE IF Contains(line, "width")
    THEN [st EXCEPT !.currentBuilding.width = ParseFloat(line.a)]
    ELSE IF Contains(line, "depth")
    THEN [st EXCEPT !.currentBuilding.depth = ParseFloat(line.a)]
    ELSE IF Contains(line, "height")
    THEN [st EXCEPT !.currentBuilding.height = ParseFloat(line.a)]
    ELSE IF Contains(line, "type")
    THEN LET b == [st.currentBuilding EXCEPT !.type = stringToBuildingType(line.key)]
         IN [st EXCEPT !.currentBuilding = b, !.buildings = Append(@, b)]
    ELSE st

\* the end of a road's points, adding the road whatever its points
closeRoadPointsAlways(st) ==
    [st EXCEPT !.inPoints = FALSE, !.roads = Append(@, st.currentRoad)]

\* the end of a road's points: the road is added unless it has no points
closeRoadPoints(st) ==
    IF st.currentRoad.points # <<>>
    THEN [st EXCEPT !.inPoints = FALSE, !.roads = Append(@, st.currentRoad)]
    ELSE [st EXCEPT !.inPoints = FALSE]

\* the roads block: skipped outside the roads section
loadRoadLine(st, line) ==
    IF st.section # "roads" THEN st
    ELSE IF Contains(line, "width") /\ ~ st.inPoints
    THEN [st EXCEPT !.currentRoad.width = ParseInt(line.a)]
    ELSE IF Contains(line, "points")
    THEN [st EXCEPT !.inPoints = TRUE, !.currentRoad.points = <<>>]
    ELSE IF st.inPoints /\ Contains(line, "x")
    THEN [st EXCEPT !.currentRoad.points =
                        Append(@, <<ParseInt(line.a), ParseInt(line.b)>>)]
    ELSE IF st.inPoints /\ Contains(line, "]")
    THEN closeRoadPoints(st)
    ELSE st

\* the parks block: skipped outside the parks section
loadParkLine(st, line) ==
    IF st.section # "parks" THEN st
    ELSE IF Contains(line, "[") /\ ~ Contains(line, "parks")
    THEN [st EXCEPT !.currentPark = <<>>]
    ELSE IF Contains(line, "x")
    THEN [st EXCEPT !.currentPark =
                        Append(@, <<ParseInt(line.a), ParseInt(line.b)>>)]
    ELSE IF Contains(line, "]") /\ st.currentPark # <<>>
    THEN [st EXCEPT !.parks = Append(@, st.currentPark), !.currentPark = <<>>]
    ELSE st

\* the fountain block: skipped outside the fountain section
loadFountainLine(st, line) ==
    IF st.section # "fountain" THEN st
    ELSE IF Contains(line, "x")
    THEN [st EXCEPT !.fountain =
                        Append(@, <<ParseInt(line.a), ParseInt(line.b)>>)]
    ELSE st

\* one iteration of the getline loop: the section is updated, then the four
\* section blocks follow one another
LoadStep(st, line) ==
    loadFountainLine(
        loadParkLine(
            loadRoadLine(
                loadBuildingLine([st EXCEPT !.section = loadSection(st, line)], line),
                line),
            line),
        line)

\* the iteration on the next line, if the file has one; st.next is the
\* position of getline in the file
LoadStepAt(st, lines) ==
    IF st.next > Len(lines) THEN st
    ELSE [LoadStep(st, lines[st.next]) EXCEPT !.next = st.next + 1]

LoadStep4(st, lines) ==
    LoadStepAt(LoadStepAt(LoadStepAt(LoadStepAt(st, lines), lines), lines), lines)

LoadStep16(st, lines) ==
    LoadStep4(LoadStep4(LoadStep4(LoadStep4(st, lines), lines), lines), lines)

\* the getline loop, sixteen lines per level of recursion
RECURSIVE LoadLoop(_, _)
LoadLoop(st, lines) ==
    IF st.next > Len(lines) THEN st ELSE LoadLoop(LoadStep16(st, lines), lines)

\* the city loadCity leaves for a file that could be opened
loadCity(lines) ==
    LET st == LoadLoop(LoadStart, lines)
    IN [roads |-> st.roads, parks |-> st.parks, fountain |-> st.fountain,
        buildings |-> st.buildings, isGenerated |-> TRUE]

\* the CityData of the state
CurrentCity ==
    [roads |-> roads, parks |-> parks, fountain |-> fountain,
     buildings |-> buildings, isGenerated |-> isGenerated]

\* saveCity: refused without a generated city or when the file cannot be
\* opened for writing; otherwise the file is rewritten
SaveCity ==
    /\ pc = "idle"
    /\ \/ /\ isGenerated
          /\ file' = saveCity(CurrentCity)
          /\ savedCity' = <<CurrentCity>>
       \/ UNCHANGED fileVars
    /\ UNCHANGED <<lastLine, circleTest, inputVars, trafficVars, screenWidth, screenHeight, cityVars,
                   pc, inCity, config, randomVars, placeVars>>

\* loadCity: refused when the file cannot be opened; otherwise the city is
\* cleared and rebuilt from the lines
LoadCity ==
    /\ pc = "idle"
    /\ file # <<>>
    /\ LET city == loadCity(file)
       IN /\ roads' = city.roads
          /\ parks' = city.parks
          /\ fountain' = city.fountain
          /\ buildings' = city.buildings
          /\ isGenerated' = city.isGenerated
    /\ UNCHANGED <<featureVars, screenWidth, screenHeight, pc, inCity, config,
                   randomVars, placeVars>>

\* a save file written by hand: one road with two points, one road whose
\* points array is empty, and a fountain
HandWrittenFile ==
    saveCity([roads |-> << [points |-> << <<60, 60>>, <<61, 60>> >>, width |-> 4],
                           [points |-> <<>>, width |-> 6] >>,
              parks |-> <<>>,
              fountain |-> << <<120, 100>> >>,
              buildings |-> <<>>,
              isGenerated |-> TRUE])

\* configurations the cities that are saved are generated with: a grid with
\* a building, a radial layout with a park and the fountain, random roads,
\* and a park radius below zero
PersistConfigs ==
    {[DefaultConfig EXCEPT !.roadPattern = "GRID", !.numBuildings = 1,
                           !.skylineType = "SKYSCRAPER"],
     [DefaultConfig EXCEPT !.roadPattern = "RADIAL", !.layoutSize = 2,
                           !.numParks = 1, !.fountainRadius = 2],
     [DefaultConfig EXCEPT !.roadPattern = "RANDOM"],
     [DefaultConfig EXCEPT !.numParks = 1, !.parkRadius = -1]}

InitPersist ==
    /\ screenWidth = CityScreen[1]
    /\ screenHeight = CityScreen[2]
    /\ InitCityData
    /\ lastLine = <<>>
    /\ InitTrafficGenerator
    /\ circleTest = NoCircleTest
    /\ InitInput
    /\ file \in {<<>>, HandWrittenFile}
    /\ savedCity = <<>>

NextPersist ==
    \/ \E cfg \in PersistConfigs : GenerateCity(cfg)
    \/ RoadSteps
    \/ GenerateParks
    \/ GenerateBuildingsBegin
    \/ GenerateBuildingsAttempt
    \/ GenerateBuildingsEnd
    \/ GenerateCityEnd
    \/ SaveCity
    \/ LoadCity

SpecPersist == InitPersist /\ [][NextPersist]_vars

(***************************************************************************)
(* TrafficGenerator (traffic_generator.cpp).  Positions and velocities are *)
(* kept in hundredths of a unit, draws of dist01 and roadProgress in       *)
(* thousandths, deltaTime in hundredths of a second; roadIndex counts from *)
(* 0 as in the code.                                                       *)
(***************************************************************************)
MaxCars == 1            \* largest numCars passed to generateTraffic
MaxUpdates == 2         \* most car updates (calls of updateTraffic times cars) explored

trafficMargin == 50

spawnAttemptsFactor == 3

minSpeed == 20

speedRange == 30

progressScale == 500

skipAhead == 100

switchChance == 200

testPoints == 5

\* values the model lets dist01 return for the choice of a road, in
\* thousandths: uniform_real_distribution(0, 1) returns values below 1
RoadDraws == {0, 400, 999}

\* values the model lets dist01 return for the progress along the road
ProgressDraws == {0, 500, 950}

\* the draws of one car in updateTraffic: <<0.5>> keeps the road, <<0.1, d>>
\* switches to the road drawn with d
SwitchDraws == {<<500>>, <<100, 400>>, <<100, 999>>}

\* values the model lets dist01 return for the speed of a car; 1000 stands
\* for the largest draw below 1, for which 20 + draw * 30 rounds to 50
SpeedDraws == {0, 1000}

\* values of deltaTime: a frame of 0.02 s and a stall of 10 s
TrafficDeltas == {2, 1000}

MinOf(S) == CHOOSE m \in S : \A e \in S : m <= e

MaxOf(S) == CHOOSE m \in S : \A e \in S : m >= e

\* isInsideCircle: centre and radius from the bounding box of the points.
\* dx, dy and d are twice the distances, so that halves stay integers.
isInsideCircle(x, y, circlePoints) ==
    IF circlePoints = <<>> THEN FALSE
    ELSE LET xs == {circlePoints[k][1] : k \in 1..Len(circlePoints)}
             ys == {circlePoints[k][2] : k \in 1..Len(circlePoints)}
             dx == 2 * x - 100 * (MinOf(xs) + MaxOf(xs))
             dy == 2 * y - 100 * (MinOf(ys) + MaxOf(ys))
             d == 100 * (MaxOf(xs) - MinOf(xs))
         IN /\ Abs(dx) <= d
            /\ Abs(dy) <= d
            /\ dx * dx + dy * dy <= d * d

\* the park loop alone, without the fountain test
insideObstacleParksOnly(x, y, prks, fnt) ==
    \E k \in 1..Len(prks) : isInsideCircle(x, y, prks[k])

\* the park loop and the fountain test around isInsideCircle
insideObstacle(x, y, prks, fnt) ==
    \/ \E k \in 1..Len(prks) : isInsideCircle(x, y, prks[k])
    \/ isInsideCircle(x, y, fnt)

\* the boundary test of generateTraffic with the y tests left out
outsideTrafficMarginX(x, y, W, H) ==
    \/ x < 100 * trafficMargin
    \/ x > 100 * (W - trafficMargin)

\* the boundary test of generateTraffic and of updateTraffic
outsideTrafficMargin(x, y, W, H) ==
    \/ x < 100 * trafficMargin
    \/ x > 100 * (W - trafficMargin)
    \/ y < 100 * trafficMargin
    \/ y > 100 * (H - trafficMargin)

\* static_cast<int>(dist01 * size), clamped to the last index
randomRoadIndex(draw, size) ==
    LET k == (draw * size) \div 1000
    IN IF k >= size THEN size - 1 ELSE k

\* static_cast<int>(progress * (size - 1)), clamped to the last index
pointIndexAt(progress, size) ==
    LET k == (progress * (size - 1)) \div 1000
    IN IF k >= size THEN size - 1 ELSE k

\* std::sqrt of n, rounded down
ISqrt(n) == CHOOSE r \in 0..(n + 1) : r * r <= n /\ (r + 1) * (r + 1) > n

\* <<vx, vy>> of a car of the given speed heading from pt to nextPt, with
\* the length of the step in hundredths; <<>> when the two points coincide
velocityAlong(pt, nextPt, speed) ==
    LET dx == nextPt[1] - pt[1]
        dy == nextPt[2] - pt[2]
        length == IF dy = 0 THEN 100 * Abs(dx)
                  ELSE IF dx = 0 THEN 100 * Abs(dy)
                  ELSE ISqrt(10000 * (dx * dx + dy * dy))
    IN IF dx = 0 /\ dy = 0 THEN <<>>
       ELSE <<TruncDiv(100 * dx * speed, length), TruncDiv(100 * dy * speed, length)>>

\* the car one spawn attempt builds from its three draws
spawnCar(rds, dRoad, dProgress, dSpeed) ==
    LET roadIndex == randomRoadIndex(dRoad, Len(rds))
        points == rds[roadIndex + 1].points
        stopped == [roadIndex |-> roadIndex, roadProgress |-> dProgress,
                    x |-> 0, y |-> 0, vx |-> 0, vy |-> 0, speed |-> 0]
    IN IF points = <<>> THEN stopped
       ELSE LET k == pointIndexAt(dProgress, Len(points))
                pt == points[k + 1]
                at == [stopped EXCEPT !.x = 100 * pt[1], !.y = 100 * pt[2]]
                speed == 100 * minSpeed + (dSpeed * speedRange) \div 10
                v == IF k < Len(points) - 1
                     THEN velocityAlong(pt, points[k + 2], speed) ELSE <<>>
            IN IF v = <<>> THEN at
               ELSE [at EXCEPT !.vx = v[1], !.vy = v[2], !.speed = speed]

\* the two `i--; continue` exits of a spawn attempt
spawnRejected(car, rds, prks, fnt, W, H) ==
    /\ rds[car.roadIndex + 1].points # <<>>
    /\ \/ outsideTrafficMargin(car.x, car.y, W, H)
       \/ insideObstacle(car.x, car.y, prks, fnt)

\* generateTraffic up to its loop; spawn holds numCars and the two counters
\* of the loop
GenerateTraffic(numCars) ==
    /\ pc = "idle"
    /\ cars' = <<>>
    /\ parkAreas' = parks
    /\ fountainArea' = fountain
    /\ trafficScreen' = <<screenWidth, screenHeight>>
    /\ updates' = 0
    /\ lastTick' = NoTick
    /\ spawn' = [numCars |-> numCars, i |-> 0, attemptedCars |-> 0]
    /\ pc' = IF roads = <<>> \/ numCars <= 0 THEN "idle" ELSE "spawn"
    /\ UNCHANGED <<lastLine, circleTest, inputVars, fileVars, screenWidth, screenHeight, cityVars,
                   inCity, config, randomVars, placeVars>>

\* one iteration of the spawn loop running one attempt past its budget
SpawnAttemptOverBudget ==
    /\ pc = "spawn"
    /\ spawn.i < spawn.numCars
    /\ spawn.attemptedCars <= spawn.numCars * spawnAttemptsFactor
    /\ \E dRoad \in RoadDraws, dProgress \in ProgressDraws, dSpeed \in SpeedDraws :
          \E car \in {spawnCar(roads, dRoad, dProgress, dSpeed)} :
          IF spawnRejected(car, roads, parkAreas, fountainArea,
                           screenWidth, screenHeight)
          THEN /\ cars' = cars
               /\ spawn' = [spawn EXCEPT !.attemptedCars = @ + 1]
          ELSE /\ cars' = Append(cars, car)
               /\ spawn' = [spawn EXCEPT !.i = @ + 1, !.attemptedCars = @ + 1]
    /\ UNCHANGED <<lastLine, circleTest, inputVars, fileVars, parkAreas,
                   fountainArea, trafficScreen, lastTick,
                   updates, screenWidth, screenHeight, cityVars, pc, inCity,
                   config, randomVars, placeVars>>

\* one iteration of the spawn loop: a rejected attempt leaves i as it was
SpawnAttempt ==
    /\ pc = "spawn"
    /\ spawn.i < spawn.numCars
    /\ spawn.attemptedCars < spawn.numCars * spawnAttemptsFactor
    /\ \E dRoad \in RoadDraws, dProgress \in ProgressDraws, dSpeed \in SpeedDraws :
          \E car \in {spawnCar(roads, dRoad, dProgress, dSpeed)} :
          IF spawnRejected(car, roads, parkAreas, fountainArea,
                           screenWidth, screenHeight)
          THEN /\ cars' = cars
               /\ spawn' = [spawn EXCEPT !.attemptedCars = @ + 1]
          ELSE /\ cars' = Append(cars, car)
               /\ spawn' = [spawn EXCEPT !.i = @ + 1, !.attemptedCars = @ + 1]
    /\ UNCHANGED <<lastLine, circleTest, inputVars, fileVars, parkAreas,
                   fountainArea, trafficScreen, lastTick,
                   updates, screenWidth, screenHeight, cityVars, pc, inCity,
                   config, randomVars, placeVars>>

\* the spawn loop is over
SpawnEnd ==
    /\ pc = "spawn"
    /\ ~ (/\ spawn.i < spawn.numCars
          /\ spawn.attemptedCars < spawn.numCars * spawnAttemptsFactor)
    /\ pc' = "idle"
    /\ UNCHANGED <<lastLine, circleTest, inputVars, fileVars, trafficVars, screenWidth, screenHeight,
                   cityVars, inCity, config, randomVars, placeVars>>

\* the advance to the next road without the wrap-around
nextRoadIndexNoWrap(roadIndex, size) == roadIndex + 1

\* the advance to the next road after a failed transition
nextRoadIndex(roadIndex, size) == (roadIndex + 1) % size

\* the test points of a road that lie inside the margin and in no obstacle
validTestPoints(points, prks, fnt, W, H) ==
    {a \in 0..(testPoints - 1) :
        LET pt == points[pointIndexAt((1000 * a) \div testPoints, Len(points)) + 1]
        IN /\ ~ outsideTrafficMargin(100 * pt[1], 100 * pt[2], W, H)
           /\ ~ insideObstacle(100 * pt[1], 100 * pt[2], prks, fnt)}

\* a car put back at a test point with the velocity it had
restartCarStale(car, points, a) ==
    LET k == pointIndexAt((1000 * a) \div testPoints, Len(points))
        pt == points[k + 1]
    IN [car EXCEPT !.x = 100 * pt[1], !.y = 100 * pt[2],
                   !.roadProgress = (1000 * a) \div testPoints]

\* a car put back at the first valid test point of its road
restartCar(car, points, a) ==
    LET k == pointIndexAt((1000 * a) \div testPoints, Len(points))
        pt == points[k + 1]
        v == IF k < Len(points) - 1
             THEN velocityAlong(pt, points[k + 2], car.speed) ELSE <<>>
        at == [car EXCEPT !.x = 100 * pt[1], !.y = 100 * pt[2],
                          !.roadProgress = (1000 * a) \div testPoints]
    IN IF v = <<>> THEN at ELSE [at EXCEPT !.vx = v[1], !.vy = v[2]]

\* the cruising step with a progress that advances at the slowest speed
\* even when the car has none
cruiseCarCreeping(car, prks, fnt, deltaTime) ==
    LET newX == car.x + TruncDiv(car.vx * deltaTime, 100)
        newY == car.y + TruncDiv(car.vy * deltaTime, 100)
        moved == IF insideObstacle(newX, newY, prks, fnt)
                 THEN [car EXCEPT !.roadProgress = @ + skipAhead]
                 ELSE [car EXCEPT !.x = newX, !.y = newY]
    IN [moved EXCEPT !.roadProgress =
           @ + (Max(car.speed, 100 * minSpeed) * deltaTime)
                  \div (10 * progressScale)]

\* the cruising step without the jump ahead on a rejected move
cruiseCarNoSkip(car, prks, fnt, deltaTime) ==
    LET newX == car.x + TruncDiv(car.vx * deltaTime, 100)
        newY == car.y + TruncDiv(car.vy * deltaTime, 100)
        moved == IF insideObstacle(newX, newY, prks, fnt)
                 THEN car
                 ELSE [car EXCEPT !.x = newX, !.y = newY]
    IN [moved EXCEPT !.roadProgress =
           @ + (car.speed * deltaTime) \div (10 * progressScale)]

\* the cruising step of updateTraffic for one car: the move, rejected when
\* it ends in an obstacle, and the advance of the progress
cruiseCar(car, prks, fnt, deltaTime) ==
    LET newX == car.x + TruncDiv(car.vx * deltaTime, 100)
        newY == car.y + TruncDiv(car.vy * deltaTime, 100)
        moved == IF insideObstacle(newX, newY, prks, fnt)
                 THEN [car EXCEPT !.roadProgress = @ + skipAhead]
                 ELSE [car EXCEPT !.x = newX, !.y = newY]
    IN [moved EXCEPT !.roadProgress =
           @ + (car.speed * deltaTime) \div (10 * progressScale)]

\* the road of a car after the 20% chance of a reassignment
switchedRoad(car, rds, draws) ==
    IF draws[1] < switchChance THEN randomRoadIndex(draws[2], Len(rds))
    ELSE car.roadIndex

\* the end of a road without the reset of roadProgress at its start
transitionCarNoReset(car, rds, prks, fnt, W, H, draws) ==
    LET roadIndex == switchedRoad(car, rds, draws)
        points == rds[roadIndex + 1].points
        wrapped == [car EXCEPT !.roadIndex = roadIndex]
    IN IF points = <<>> THEN wrapped
       ELSE LET valid == validTestPoints(points, prks, fnt, W, H)
            IN IF valid = {}
               THEN [wrapped EXCEPT
                        !.roadIndex = nextRoadIndex(roadIndex, Len(rds))]
               ELSE restartCar(wrapped, points, MinOf(valid))

\* the end of a road with a failed search staying on the same road
transitionCarSameRoad(car, rds, prks, fnt, W, H, draws) ==
    LET roadIndex == switchedRoad(car, rds, draws)
        points == rds[roadIndex + 1].points
        wrapped == [car EXCEPT !.roadProgress = 0, !.roadIndex = roadIndex]
    IN IF points = <<>> THEN wrapped
       ELSE LET valid == validTestPoints(points, prks, fnt, W, H)
            IN IF valid = {} THEN wrapped
               ELSE restartCar(wrapped, points, MinOf(valid))

\* the end of a road: car is the car after its cruising step, draws holds
\* the values dist01 returns
transitionCar(car, rds, prks, fnt, W, H, draws) ==
    LET roadIndex == switchedRoad(car, rds, draws)
        points == rds[roadIndex + 1].points
        wrapped == [car EXCEPT !.roadProgress = 0, !.roadIndex = roadIndex]
    IN IF points = <<>> THEN wrapped
       ELSE LET valid == validTestPoints(points, prks, fnt, W, H)
            IN IF valid = {}
               THEN [wrapped EXCEPT
                        !.roadIndex = nextRoadIndex(roadIndex, Len(rds))]
               ELSE restartCar(wrapped, points, MinOf(valid))

\* the body of the loop of updateTraffic for one car
updateCar(car, rds, prks, fnt, W, H, deltaTime, draws) ==
    LET cruised == cruiseCar(car, prks, fnt, deltaTime)
    IN IF cruised.roadProgress < 1000 THEN cruised
       ELSE transitionCar(cruised, rds, prks, fnt, W, H, draws)

\* what a tick leaves for later comparison: deltaTime, every car after its
\* cruising step, and the road each car that reached the end of its road
\* had after the chance of a reassignment
tickRecord(cs, rds, prks, fnt, deltaTime, draws) ==
    LET cruised == [c \in 1..Len(cs) |-> cruiseCar(cs[c], prks, fnt, deltaTime)]
    IN [deltaTime |-> deltaTime,
        cruised |-> cruised,
        road |-> [c \in 1..Len(cs) |->
                    IF cruised[c].roadProgress < 1000 THEN cruised[c].roadIndex
                    ELSE switchedRoad(cruised[c], rds, draws[c])]]

\* updateTraffic reading the obstacles and the screen size of the city
\* instead of those captured by generateTraffic
UpdateTrafficLive(deltaTime) ==
    /\ pc = "idle"
    /\ updates * Max(1, Len(cars)) < MaxUpdates
    /\ updates' = updates + 1
    /\ IF roads = <<>> THEN UNCHANGED <<cars, lastTick>>
       ELSE \E draws \in [1..Len(cars) -> SwitchDraws] :
               /\ cars' = [c \in 1..Len(cars) |->
                              updateCar(cars[c], roads, parks, fountain,
                                        screenWidth, screenHeight,
                                        deltaTime, draws[c])]
               /\ lastTick' = tickRecord(cars, roads, parks, fountain,
                                         deltaTime, draws)
    /\ UNCHANGED <<lastLine, circleTest, inputVars, fileVars, parkAreas,
                   fountainArea, trafficScreen, spawn, screenWidth,
                   screenHeight, cityVars, pc, inCity, config, randomVars,
                   placeVars>>

\* updateTraffic: every car is advanced, each with its own draws
UpdateTraffic(deltaTime) ==
    /\ pc = "idle"
    /\ updates * Max(1, Len(cars)) < MaxUpdates
    /\ updates' = updates + 1
    /\ IF roads = <<>> THEN UNCHANGED <<cars, lastTick>>
       ELSE \E draws \in [1..Len(cars) -> SwitchDraws] :
               /\ cars' = [c \in 1..Len(cars) |->
                              updateCar(cars[c], roads, parkAreas, fountainArea,
                                        trafficScreen[1], trafficScreen[2],
                                        deltaTime, draws[c])]
               /\ lastTick' = tickRecord(cars, roads, parkAreas, fountainArea,
                                         deltaTime, draws)
    /\ UNCHANGED <<lastLine, circleTest, inputVars, fileVars, parkAreas,
                   fountainArea, trafficScreen, spawn, screenWidth,
                   screenHeight, cityVars, pc, inCity, config, randomVars,
                   placeVars>>

\* the roads generateRandomRoads returns on a canvas of 300 x 200 when it
\* joins the corner node (200, 100) to a random node at (150, 100), then
\* the two corner nodes that coincide at (100, 100) and then the two that
\* coincide at (200, 100): the second and third road are single points
crossroads ==
    LET pool == << <<150, 100>>, <<150, 100>> >> \o edgeNodes(300, 200)
        width == DefaultConfig.roadWidth
    IN randomConnect(randomConnect(randomConnect(<<>>, pool, 3, 0, width),
                                   pool, 2, 4, width),
                     pool, 3, 5, width)

\* the cities traffic is generated on: a grid on a wide canvas, a radial
\* spoke of 11 points whose test points lie in a park and a fountain, three
\* random roads with a park on the start of the first and on the third, and
\* the fountain circle, which generateParks appends to the parks, on the
\* end of the first, and a city without roads
TrafficCities ==
    {[W |-> 240, H |-> 200,
      roads |-> generateGridRoads(DefaultConfig, 240, 200,
                                  gridSpacing(DefaultConfig, 240)),
      parks |-> <<>>, fountain |-> <<>>],
     [W |-> 120, H |-> 120,
      roads |-> generateRadialRoads(DefaultConfig, 120, 120),
      parks |-> <<midpointCircle(62, 60, 2)>>,
      fountain |-> midpointCircle(67, 60, 1)],
     [W |-> 300, H |-> 200, roads |-> crossroads,
      parks |-> <<midpointCircle(200, 100, 2), midpointCircle(150, 100, 2)>>,
      fountain |-> <<>>],
     [W |-> 200, H |-> 200, roads |-> <<>>, parks |-> <<>>, fountain |-> <<>>]}

InitTraffic ==
    /\ \E city \in TrafficCities :
          /\ screenWidth = city.W
          /\ screenHeight = city.H
          /\ roads = city.roads
          /\ parks = city.parks
          /\ fountain = city.fountain
    /\ buildings = <<>>
    /\ isGenerated = TRUE
    /\ pc = "idle"
    /\ inCity = FALSE
    /\ config = DefaultConfig
    /\ nodes = <<>>
    /\ loopI = 0
    /\ localRoads = <<>>
    /\ lastResult = "none"
    /\ lastClick = <<>>
    /\ InitFeatures

\* the radial city of TrafficCities with a save file of the same roads
\* without any park or fountain
InitReload ==
    /\ screenWidth = 120
    /\ screenHeight = 120
    /\ roads = generateRadialRoads(DefaultConfig, 120, 120)
    /\ parks = <<midpointCircle(62, 60, 2)>>
    /\ fountain = midpointCircle(67, 60, 1)
    /\ buildings = <<>>
    /\ isGenerated = TRUE
    /\ pc = "idle"
    /\ inCity = FALSE
    /\ config = DefaultConfig
    /\ nodes = <<>>
    /\ loopI = 0
    /\ localRoads = <<>>
    /\ lastResult = "none"
    /\ lastClick = <<>>
    /\ lastLine = <<>>
    /\ InitTrafficGenerator
    /\ circleTest = NoCircleTest
    /\ InitInput
    /\ file = saveCity([roads |-> generateRadialRoads(DefaultConfig, 120, 120),
                        parks |-> <<>>, fountain |-> <<>>, buildings |-> <<>>,
                        isGenerated |-> TRUE])
    /\ savedCity = <<>>

NextTraffic ==
    \/ \E numCars \in -1..MaxCars : GenerateTraffic(numCars)
    \/ SpawnAttempt
    \/ SpawnEnd
    \/ \E deltaTime \in TrafficDeltas : UpdateTraffic(deltaTime)

SpecTraffic == InitTraffic /\ [][NextTraffic]_vars

\* traffic on a city that is saved and loaded while the cars run
NextReload ==
    \/ NextTraffic
    \/ SaveCity
    \/ LoadCity

SpecReload == InitReload /\ [][NextReload]_vars

\* calls of generateTraffic alone, one population replacing the other
NextSpawn ==
    \/ \E numCars \in -1..MaxCars : GenerateTraffic(numCars)
    \/ SpawnAttempt
    \/ SpawnEnd

\* generateTraffic runs in one thread without waiting: an iteration of its
\* loop that can run does run, and so does the exit of the loop
FairSpawnLoop ==
    /\ WF_vars(SpawnAttempt)
    /\ WF_vars(SpawnEnd)

SpecSpawnFair == InitTraffic /\ [][NextSpawn]_vars /\ FairSpawnLoop

(***************************************************************************)
(* createRoad called on its own, for segments of every direction.          *)
(***************************************************************************)
MaxLine == 3            \* largest coordinate of an end point, either sign
MaxRadius == 3          \* largest radius of a circle put to isInsideCircle

LineCoords == (-MaxLine)..MaxLine

\* createRoad for the end points held in lastLine: the road returned is
\* kept in localRoads
CreateRoad(width) ==
    /\ pc = "idle"
    /\ localRoads = <<>>
    /\ localRoads' = <<createRoad(lastLine[1], lastLine[2], lastLine[3],
                                  lastLine[4], width)>>
    /\ UNCHANGED <<featureVars, screenWidth, screenHeight, cityVars, pc,
                   inCity, config, nodes, loopI, placeVars>>

\* the end points are drawn at the start
InitLine ==
    /\ screenWidth = CityScreen[1]
    /\ screenHeight = CityScreen[2]
    /\ InitCityData
    /\ InitFile
    /\ InitTrafficGenerator
    /\ circleTest = NoCircleTest
    /\ InitInput
    /\ \E x0 \in LineCoords, y0 \in LineCoords, x1 \in LineCoords, y1 \in LineCoords :
          lastLine = <<x0, y0, x1, y1>>

NextLine == \E width \in {4, 8} : CreateRoad(width)

SpecLine == InitLine /\ [][NextLine]_vars

(***************************************************************************)
(* The two isInsideCircle functions, called on the same circle and point.  *)
(***************************************************************************)
\* BuildingPlacementSystem::isInsideCircle: the centre is the mean of the
\* points and the radius the largest distance of a point from it.  x and y
\* are in hundredths; dx, dy and the radius are taken n times, n being the
\* number of points, so that the mean needs no division.  The code squares
\* the rounded square root of the largest squared distance; the model
\* compares with the squared distance itself.
placementIsInsideCircle(x, y, circlePoints) ==
    IF circlePoints = <<>> THEN FALSE
    ELSE LET n == Len(circlePoints)
             sumX == SumCoord(circlePoints, 1, 1)
             sumY == SumCoord(circlePoints, 2, 1)
             dx == n * x - 100 * sumX
             dy == n * y - 100 * sumY
             DistSq(i) == (n * circlePoints[i][1] - sumX)
                             * (n * circlePoints[i][1] - sumX)
                          + (n * circlePoints[i][2] - sumY)
                             * (n * circlePoints[i][2] - sumY)
             radiusSq == MaxOf({DistSq(i) : i \in 1..n})
         IN dx * dx + dy * dy <= 10000 * radiusSq

\* the circles put to the functions: none, and those generateParks stores
\* for the radii up to MaxRadius
StoredCircles == {<<>>} \cup {midpointCircle(60, 60, r) : r \in 0..MaxRadius}

\* coordinates of the query points, in hundredths, around the centre
QueryCoords == {6000 + d : d \in {-310, -210, 0, 100, 210, 310}}

\* TrafficGenerator::isInsideCircle is called for the circle and the point
TrafficIsInsideCircle ==
    /\ pc = "idle"
    /\ circleTest.traffic = "unasked"
    /\ circleTest' = [circleTest EXCEPT !.traffic =
          IF isInsideCircle(circleTest.x, circleTest.y, circleTest.circlePoints)
          THEN "inside" ELSE "outside"]
    /\ UNCHANGED <<lastLine, fileVars, trafficVars, inputVars, screenWidth,
                   screenHeight, cityVars, pc, inCity, config, randomVars,
                   placeVars>>

\* BuildingPlacementSystem::isInsideCircle is called for the circle and the
\* point
PlacementIsInsideCircle ==
    /\ pc = "idle"
    /\ circleTest.placement = "unasked"
    /\ circleTest' = [circleTest EXCEPT !.placement =
          IF placementIsInsideCircle(circleTest.x, circleTest.y,
                                     circleTest.circlePoints)
          THEN "inside" ELSE "outside"]
    /\ UNCHANGED <<lastLine, fileVars, trafficVars, inputVars, screenWidth,
                   screenHeight, cityVars, pc, inCity, config, randomVars,
                   placeVars>>

InitCircle ==
    /\ screenWidth = CityScreen[1]
    /\ screenHeight = CityScreen[2]
    /\ InitCityData
    /\ lastLine = <<>>
    /\ InitFile
    /\ InitTrafficGenerator
    /\ InitInput
    /\ \E circlePoints \in StoredCircles, x \in QueryCoords, y \in QueryCoords :
          circleTest = [NoCircleTest EXCEPT !.circlePoints = circlePoints,
                                            !.x = x, !.y = y]

NextCircle ==
    \/ TrafficIsInsideCircle
    \/ PlacementIsInsideCircle

SpecCircle == InitCircle /\ [][NextCircle]_vars

(***************************************************************************)
(* The input handler: keys change between frames, processInput runs once   *)
(* per frame.                                                              *)
(***************************************************************************)
\* the value isKeyJustPressed would return if it reported the key state
isKeyPressedNow(state, wasPressed) == state

\* the value isKeyJustPressed returns for the state glfwGetKey reports and
\* the state stored at the previous call
isKeyJustPressed(state, wasPressed) == state /\ ~ wasPressed

\* the order of the SkylineType enumeration
SkylineOrder == <<"LOW_RISE", "MID_RISE", "SKYSCRAPER", "MIXED">>

\* the handler of L: the next skyline type, wrapping after the fourth
nextSkyline(skyline) ==
    LET current == CHOOSE k \in 1..Len(SkylineOrder) : SkylineOrder[k] = skyline
    IN SkylineOrder[(current % Len(SkylineOrder)) + 1]

\* the handler of F: the fountain radius toggles between 25 and 40
toggledFountainRadius(fountainRadius) == IF fountainRadius = 25 THEN 40 ELSE 25

\* the user presses a key between two frames
KeyDown(key) ==
    /\ key \notin glfwKeys
    /\ glfwKeys' = glfwKeys \cup {key}
    /\ UNCHANGED <<lastLine, fileVars, trafficVars, circleTest, keysPressed,
                   lastFrame, screenWidth, screenHeight, cityVars, pc, inCity,
                   config, randomVars, placeVars>>

\* the user releases a key between two frames
KeyUp(key) ==
    /\ key \in glfwKeys
    /\ glfwKeys' = glfwKeys \ {key}
    /\ UNCHANGED <<lastLine, fileVars, trafficVars, circleTest, keysPressed,
                   lastFrame, screenWidth, screenHeight, cityVars, pc, inCity,
                   config, randomVars, placeVars>>

\* processInput for the keys L and F: isKeyJustPressed is called once for
\* each key and stores the state it read
ProcessInput ==
    /\ pc = "idle"
    /\ LET fired == {key \in Keys :
                        isKeyJustPressed(key \in glfwKeys, keysPressed[key])}
       IN /\ config' = [config EXCEPT
                !.skylineType = IF "L" \in fired THEN nextSkyline(@) ELSE @,
                !.fountainRadius = IF "F" \in fired
                                   THEN toggledFountainRadius(@) ELSE @]
          /\ lastFrame' = [held |-> glfwKeys, fired |-> fired]
    /\ keysPressed' = [key \in Keys |-> key \in glfwKeys]
    /\ UNCHANGED <<lastLine, fileVars, trafficVars, circleTest, glfwKeys,
                   screenWidth, screenHeight, cityVars, pc, inCity, randomVars,
                   placeVars>>

InitKeys ==
    /\ screenWidth = CityScreen[1]
    /\ screenHeight = CityScreen[2]
    /\ InitCityData
    /\ lastResult = "none"
    /\ lastClick = <<>>
    /\ InitFeatures

NextKeys ==
    \/ \E key \in Keys : KeyDown(key)
    \/ \E key \in Keys : KeyUp(key)
    \/ ProcessInput

SpecKeys == InitKeys /\ [][NextKeys]_vars

(***************************************************************************)
(* Properties of city generation.                                          *)
(***************************************************************************)
\* generateCity has run to its end with the configuration in `config`
CityGenerated == pc = "idle" /\ isGenerated

\* C10: after generateCity with fountainRadius > 0 the park list has
\* numParks + 1 elements, the last being the circle of the fountain radius
\* at the canvas centre, for every numParks >= 0; with fountainRadius <= 0
\* it has numParks elements.
FountainAppended ==
    CityGenerated =>
        IF config.fountainRadius > 0
        THEN /\ Len(parks) = config.numParks + 1
             /\ parks[Len(parks)] =
                   midpointCircle(screenWidth \div 2, screenHeight \div 2,
                                  config.fountainRadius)
        ELSE Len(parks) = config.numParks

(***************************************************************************)
(* Properties of interactive placement.                                    *)
(***************************************************************************)
\* the footprint of building b grown by `by` on every side, as
\* <<left, right, top, bottom>>
Expanded(b, by) ==
    <<b.x - b.width \div 2 - by, b.x + b.width \div 2 + by,
      b.y - b.depth \div 2 - by, b.y + b.depth \div 2 + by>>

\* two closed boxes have a point in common
BoxesIntersect(p, q) ==
    /\ p[1] <= q[2] /\ q[1] <= p[2]
    /\ p[3] <= q[4] /\ q[3] <= p[4]

\* the footprints are more than `gap` apart along the x axis or the y axis
SeparatedBy(a, b, gap) ==
    LET fa == Expanded(a, 0)
        fb == Expanded(b, 0)
    IN \/ fb[1] - fa[2] > gap \/ fa[1] - fb[2] > gap
       \/ fb[3] - fa[4] > gap \/ fa[3] - fb[4] > gap

\* buildings appended by tryPlaceBuilding carry its fixed height; automatic
\* generation draws heights of 10 and more
PlacedByClick(b) == b.height = placedHeight

RoadPoints == UNION {{roads[r].points[i] : i \in 1..Len(roads[r].points)} :
                        r \in 1..Len(roads)}

\* C1: every building appended by tryPlaceBuilding is, for as long as it is
\* in the list, clear of the roads (no road point in its footprint grown by
\* 20), passes the circle test against every park and the fountain, and is
\* more than 25 units apart on one axis from every other building.
PlacedStayClear ==
    \A i \in 1..Len(buildings) :
        LET b == buildings[i]
            grown == Expanded(b, 20)
        IN PlacedByClick(b) =>
            /\ \A pt \in RoadPoints :
                  ~ (/\ pt[1] >= grown[1] /\ pt[1] <= grown[2]
                     /\ pt[2] >= grown[3] /\ pt[2] <= grown[4])
            /\ \A k \in 1..Len(parks) :
                  parks[k] # <<>> =>
                      ~ boxHitsCircle(b.x, b.y, b.width, b.depth, parks[k], 35)
            /\ fountain # <<>> =>
                  ~ boxHitsCircle(b.x, b.y, b.width, b.depth, fountain, 35)
            /\ \A j \in 1..Len(buildings) :
                  j # i => SeparatedBy(b, buildings[j], 25)

\* two clicked buildings are in the list and a later call has been turned
\* down because of them
PlacedStayClearWitness ==
    /\ lastResult = "building"
    /\ \E i, j \in 1..Len(buildings) :
          i < j /\ PlacedByClick(buildings[i]) /\ PlacedByClick(buildings[j])

\* C2: a rejected call leaves the building list as it was; an accepted call
\* appends exactly one building, centred at the click with the configured
\* width and depth, MID_RISE and the fixed height, and keeps the earlier
\* elements; roads, parks and fountain are never modified.
PlacementFrame ==
    [][LET c == lastClick' IN
       /\ roads' = roads
       /\ parks' = parks
       /\ fountain' = fountain
       /\ lastResult' # "placed" => buildings' = buildings
       /\ lastResult' = "placed" =>
             /\ Len(buildings') = Len(buildings) + 1
             /\ SubSeq(buildings', 1, Len(buildings)) = buildings
             /\ buildings'[Len(buildings')] =
                   [x |-> c[1], y |-> c[2], width |-> c[3], depth |-> c[4],
                    height |-> 15, type |-> "MID_RISE"]]_vars

\* a click on a road point has been rejected with buildings in the list, the
\* last of them wider than deep
PlacementFrameWitness ==
    /\ lastResult = "road"
    /\ <<lastClick[1], lastClick[2]>> \in RoadPoints
    /\ Len(buildings) >= 1
    /\ PlacedByClick(buildings[Len(buildings)])
    /\ buildings[Len(buildings)].width # buildings[Len(buildings)].depth

\* C3: the reason reported is that of the earliest failing check in the
\* order boundary, road, park, fountain, building, and the building is
\* accepted exactly when all five checks pass.
PlacementOrder ==
    [][LET c == lastClick'
           B == outsideBoundary(c[1], c[2], c[3], c[4], screenWidth, screenHeight)
           R == collidesWithRoads(c[1], c[2], c[3], c[4], roads)
           P == collidesWithParks(c[1], c[2], c[3], c[4], parks)
           F == collidesWithFountain(c[1], c[2], c[3], c[4], fountain)
           U == collidesWithBuildings(c[1], c[2], c[3], c[4], buildings)
       IN /\ (lastResult' = "boundary") <=> B
          /\ (lastResult' = "road") <=> (~B /\ R)
          /\ (lastResult' = "park") <=> (~B /\ ~R /\ P)
          /\ (lastResult' = "fountain") <=> (~B /\ ~R /\ ~P /\ F)
          /\ (lastResult' = "building") <=> (~B /\ ~R /\ ~P /\ ~F /\ U)
          /\ (lastResult' = "placed") <=> (~B /\ ~R /\ ~P /\ ~F /\ ~U)
          /\ (Len(buildings') = Len(buildings) + 1) <=> (lastResult' = "placed")
          /\ (buildings' = buildings) <=> (lastResult' # "placed")]_vars

\* a candidate that is outside the margin and on a road has been rejected as
\* boundary, in a city where a park and the fountain are both present
PlacementOrderWitness ==
    /\ lastResult = "boundary"
    /\ collidesWithRoads(lastClick[1], lastClick[2], lastClick[3], lastClick[4], roads)
    /\ parks # <<>>
    /\ fountain # <<>>

IsHorizontal(road) ==
    \A i \in 1..Len(road.points) : road.points[i][2] = road.points[1][2]

IsVertical(road) ==
    \A i \in 1..Len(road.points) : road.points[i][1] = road.points[1][1]

\* generateGridRoads returns in this step, for a layout size of at least 1
GridReturns ==
    /\ pc = "grid"
    /\ pc' # "grid"
    /\ pc' # "crashed"
    /\ config.layoutSize >= 1

\* C5: grid generation with layout size N >= 1 returns exactly 2(N+1) roads,
\* N+1 horizontal roads followed by N+1 vertical roads, on every canvas.
GridRoadCount ==
    [][GridReturns =>
        LET n == config.layoutSize IN
        /\ Len(roads') = 2 * (n + 1)
        /\ \A k \in 1..(n + 1) : IsHorizontal(roads'[k])
        /\ \A k \in (n + 2)..(2 * n + 2) : IsVertical(roads'[k])]_vars

\* a grid of at least 3x3 blocks has been generated on a non-square canvas
GridRoadCountWitness ==
    /\ pc = "idle"
    /\ config.roadPattern = "GRID"
    /\ config.layoutSize >= 3
    /\ screenWidth # screenHeight
    /\ Len(roads) = 2 * (config.layoutSize + 1)

\* C6: road generation never crashes, whatever the pattern and layout size.
RoadGenerationTotal == pc # "crashed"

\* C7: every point of every grid road lies inside the 50-unit margin:
\* horizontal roads span x from 50 to W-50 at a y in [50, H-50], vertical
\* roads span y from 50 to H-50 at an x in [50, W-50].
GridInsideMargin ==
    [][GridReturns =>
        LET n == config.layoutSize
            W == screenWidth
            H == screenHeight
            Inside(pt) == /\ pt[1] >= 50 /\ pt[1] <= W - 50
                          /\ pt[2] >= 50 /\ pt[2] <= H - 50
        IN /\ \A k \in 1..Len(roads') :
                 \A i \in 1..Len(roads'[k].points) : Inside(roads'[k].points[i])
           /\ \A k \in 1..(n + 1) :
                 /\ roads'[k].points[1][1] = 50
                 /\ roads'[k].points[Len(roads'[k].points)][1] = W - 50
           /\ \A k \in (n + 2)..(2 * n + 2) :
                 /\ roads'[k].points[1][2] = 50
                 /\ roads'[k].points[Len(roads'[k].points)][2] = H - 50]_vars

\* the connection loop of generateRandomRoads has run to its end
RandomLoopOver == pc = "random_loop" /\ loopI >= randomNumRoads(config)

\* C8: random generation with layout size N creates exactly 3N roads, each
\* connecting two distinct node indices of the pool.
RandomRoadCount ==
    RandomLoopOver =>
        /\ Len(localRoads) = 3 * config.layoutSize
        /\ Len(nodes) = 2 * config.layoutSize + 4
        /\ \A k \in 1..Len(localRoads) :
              \E i, j \in 1..Len(nodes) :
                 /\ i # j
                 /\ localRoads[k].points[1] = nodes[i]
                 /\ localRoads[k].points[Len(localRoads[k].points)] = nodes[j]

\* boundary points of ring number `ring` of the radial pattern
RingCircle(ring, n, W, H) ==
    midpointCircle(W \div 2, H \div 2,
                   ((Min(W, H) \div 2 - 50) * ring) \div (n \div 2))

\* index of the road before the first road of ring number `ring`
RECURSIVE RingOffset(_, _, _, _)
RingOffset(ring, n, W, H) ==
    IF ring <= 1 THEN n
    ELSE RingOffset(ring - 1, n, W, H)
         + (Len(RingCircle(ring - 1, n, W, H)) + 7) \div 8

\* C9: radial generation with layout size N returns N spoke roads followed
\* by the ring roads; a ring with p boundary points contributes ceil(p/8)
\* roads, the k-th from boundary point 8k to boundary point (8k+8) mod p.
RadialRoadShape ==
    [][(pc = "radial" /\ pc' # "radial") =>
        LET n == config.layoutSize
            W == screenWidth
            H == screenHeight
            rings == n \div 2
        IN /\ Len(roads') = RingOffset(rings + 1, n, W, H)
           /\ \A k \in 1..n : roads'[k].points[1] = <<W \div 2, H \div 2>>
           /\ \A ring \in 1..rings :
                 LET cp == RingCircle(ring, n, W, H)
                     p == Len(cp)
                     off == RingOffset(ring, n, W, H)
                 IN \A k \in 0..((p + 7) \div 8 - 1) :
                       LET road == roads'[off + k + 1] IN
                       /\ road.points[1] = cp[8 * k + 1]
                       /\ road.points[Len(road.points)] = cp[((8 * k + 8) % p) + 1]]_vars

\* a radial network with spokes and at least one ring has been generated
RadialRoadShapeWitness ==
    /\ pc = "idle"
    /\ config.roadPattern = "RADIAL"
    /\ config.layoutSize >= 2
    /\ Len(roads) > config.layoutSize + 8

(***************************************************************************)
(* Properties of a session of generation cycles and placements.            *)
(***************************************************************************)
\* C11: generateCity begins by emptying roads, parks, fountain and buildings
\* and lowering the generated flag; the flag is raised only at the end of
\* generateCity, after roads, parks and buildings were produced; and when a
\* cycle ends CityData holds only what that cycle produced: the roads of the
\* cycle's pattern and width, at most numParks + 1 park circles, at most
\* numBuildings buildings, none of them left by a click.
CycleReplacesCity ==
    [][/\ (pc = "idle" /\ pc' # "idle") =>
             /\ roads' = <<>> /\ parks' = <<>> /\ fountain' = <<>>
             /\ buildings' = <<>> /\ ~ isGenerated'
       /\ (~ isGenerated /\ isGenerated') => (pc = "finish" /\ pc' = "idle")
       /\ (pc = "finish" /\ pc' = "idle") =>
             /\ isGenerated'
             /\ \A r \in 1..Len(roads') : roads'[r].width = config'.roadWidth
             /\ config'.roadPattern = "GRID" =>
                    roads' = generateGridRoads(config', screenWidth, screenHeight,
                                               gridSpacing(config', screenWidth))
             /\ config'.roadPattern = "RADIAL" =>
                    roads' = generateRadialRoads(config', screenWidth, screenHeight)
             /\ config'.roadPattern = "RANDOM" =>
                    Len(roads') <= randomNumRoads(config')
             /\ Len(parks') <= config'.numParks + 1
             /\ fountain' = <<>>
             /\ Len(buildings') <= config'.numBuildings
             /\ \A b \in 1..Len(buildings') : ~ PlacedByClick(buildings'[b])
      ]_vars

\* a cycle has ended after a click had placed a building, and under another
\* road pattern than the one of the roads it replaced
CycleReplacesCityWitness ==
    /\ CityGenerated
    /\ lastResult = "placed"
    /\ Len(buildings) = 1
    /\ ~ PlacedByClick(buildings[1])
    /\ roads # <<>>

(***************************************************************************)
(* Properties of persistence.                                              *)
(***************************************************************************)
\* C12: every road held in CityData has at least one point, after
\* generateCity for every pattern and after every loadCity that read a file
\* (a road read with no points is not added).
RoadsHavePoints ==
    \A r \in 1..Len(roads) : Len(roads[r].points) >= 1

\* the hand-written file, whose second road has no points, has been loaded
RoadsHavePointsWitness ==
    /\ pc = "idle"
    /\ file = HandWrittenFile
    /\ Len(roads) = 1
    /\ roads[1].width = 4
    /\ fountain # <<>>


(***************************************************************************)
(* Properties of automatic building generation.                            *)
(***************************************************************************)
InBuildingsLoop == pc = "buildings_loop"

AttemptsWithinBudget ==
    InBuildingsLoop =>
        /\ loopI <= maxAttemptsFactor * config.numBuildings
        /\ Len(buildings) <= config.numBuildings

ShortfallOnlyWhenExhausted ==
    (InBuildingsLoop /\ pc' = "finish") =>
        /\ Len(buildings') <= config.numBuildings
        /\ Len(buildings') < config.numBuildings =>
              loopI = maxAttemptsFactor * config.numBuildings

GeneratedBuildingsPassPlacement ==
    CityGenerated =>
        \A i \in 1..Len(buildings) :
            placementOutcome(buildings[i].x, buildings[i].y,
                             buildings[i].width, buildings[i].depth,
                             SubSeq(buildings, 1, i - 1), roads, parks,
                             fountain, screenWidth, screenHeight) = "placed"


(***************************************************************************)
(* Properties of the traffic system.                                       *)
(***************************************************************************)
\* the cars are as generateTraffic left them: no updateTraffic call since
Spawned == updates = 0

CircleAreas == {parkAreas[k] : k \in 1..Len(parkAreas)} \cup {fountainArea}

OnRoadPoint(car) ==
    \E k \in 1..Len(roads[car.roadIndex + 1].points) :
        /\ car.x = 100 * roads[car.roadIndex + 1].points[k][1]
        /\ car.y = 100 * roads[car.roadIndex + 1].points[k][2]

InsideScreenMargin(car) ==
    /\ car.x >= 100 * 50 /\ car.x <= 100 * (screenWidth - 50)
    /\ car.y >= 100 * 50 /\ car.y <= 100 * (screenHeight - 50)

\* C15: on roads that each have at least one point, every car produced by
\* generateTraffic has roadIndex in [0, roadCount) and roadProgress in
\* [0, 1], stands on a point of road roadIndex inside the 50-unit screen
\* margin, and is inside no park or fountain circle.
SpawnedCarsValid ==
    (Spawned /\ RoadsHavePoints) =>
        \A c \in 1..Len(cars) :
            /\ cars[c].roadIndex \in 0..(Len(roads) - 1)
            /\ cars[c].roadProgress >= 0 /\ cars[c].roadProgress <= 1000
            /\ OnRoadPoint(cars[c])
            /\ InsideScreenMargin(cars[c])
            /\ \A area \in CircleAreas :
                  ~ isInsideCircle(cars[c].x, cars[c].y, area)

\* a car was accepted after a rejected attempt, next to a park and a fountain
SpawnedCarsValidWitness ==
    /\ pc = "idle" /\ Spawned
    /\ parkAreas # <<>> /\ fountainArea # <<>>
    /\ Len(cars) = 1
    /\ spawn.attemptedCars >= 2

\* C16: generateTraffic with numCars = n > 0 on a non-empty road network
\* without parks and fountain leaves exactly n cars.
ExactPopulation ==
    (/\ pc = "idle" /\ Spawned
     /\ spawn.numCars > 0
     /\ roads # <<>>
     /\ parkAreas = <<>> /\ fountainArea = <<>>) =>
        Len(cars) = spawn.numCars

AttemptsWithinSpawnBudget ==
    /\ spawn.attemptedCars <= spawnAttemptsFactor * Max(spawn.numCars, 0)
    /\ Len(cars) <= Max(spawn.numCars, 0)

\* a step of generateTraffic up to its loop
PopulationDiscarded ==
    (pc = "idle" /\ updates' = 0) =>
        /\ cars' = <<>>
        /\ pc' = "spawn" => spawn'.attemptedCars = 0

\* C17: generateTraffic with numCars = n makes at most 3*n spawn attempts,
\* always comes to an end and leaves at most n cars, and it discards the
\* previous population before its first attempt.
SpawningBounded ==
    /\ [] AttemptsWithinSpawnBudget
    /\ [][PopulationDiscarded]_vars
    /\ (pc = "spawn" ~> pc = "idle")

\* all 3*n attempts were made and a car is missing
SpawningBoundedWitness ==
    /\ pc = "spawn"
    /\ spawn.numCars >= 1
    /\ spawn.attemptedCars = spawnAttemptsFactor * spawn.numCars
    /\ Len(cars) < spawn.numCars

\* C18: after generateTraffic and any number of updateTraffic calls on the
\* same non-empty road list every car's roadIndex is in [0, roads.size()).
RoadIndexInRange ==
    roads # <<>> =>
        \A c \in 1..Len(cars) :
            cars[c].roadIndex >= 0 /\ cars[c].roadIndex < Len(roads)

\* a moving car reached the end of its only road, found none of the test
\* points free and was advanced to the next road
RoadIndexInRangeWitness ==
    /\ pc = "idle" /\ updates >= 1
    /\ Len(roads) = 1 /\ parkAreas # <<>>
    /\ Len(cars) = 1
    /\ cars[1].roadProgress = 0
    /\ cars[1].speed > 0


(***************************************************************************)
(* Properties of persistence.                                              *)
(***************************************************************************)
\* a building with its numbers as saveCity writes them
AsWritten(b) ==
    [b EXCEPT !.x = RoundSignificant(b.x), !.y = RoundSignificant(b.y),
              !.width = RoundSignificant(b.width),
              !.depth = RoundSignificant(b.depth),
              !.height = RoundSignificant(b.height)]

\* a step of loadCity reading the file saveCity wrote from savedCity[1]
LoadsSavedFile ==
    /\ pc = "idle" /\ pc' = "idle"
    /\ savedCity # <<>>
    /\ UNCHANGED fileVars

\* C19: loadCity of the file saveCity wrote yields the saved city: the same
\* roads in the same order with the same widths and points, the same parks
\* in the same order, parks with no points included, the same fountain
\* points, the same buildings with their numbers as written, and
\* isGenerated true.
SaveLoadRoundTrip ==
    [][LoadsSavedFile =>
          /\ roads' = savedCity[1].roads
          /\ parks' = savedCity[1].parks
          /\ fountain' = savedCity[1].fountain
          /\ buildings' = [i \in 1..Len(savedCity[1].buildings) |->
                              AsWritten(savedCity[1].buildings[i])]
          /\ isGenerated']_vars


(***************************************************************************)
(* Properties of line rasterization.                                       *)
(***************************************************************************)
\* C20: the points of a road built by createRoad for the end points
\* (x0, y0) and (x1, y1) start at (x0, y0), end at (x1, y1), and each point
\* differs from the one before it by at most 1 on each axis, whatever the
\* direction of the segment.
RoadIsGapFreePath ==
    localRoads # <<>> =>
        LET points == localRoads[1].points IN
        /\ points # <<>>
        /\ points[1] = <<lastLine[1], lastLine[2]>>
        /\ points[Len(points)] = <<lastLine[3], lastLine[4]>>
        /\ \A k \in 1..(Len(points) - 1) :
              /\ Abs(points[k + 1][1] - points[k][1]) <= 1
              /\ Abs(points[k + 1][2] - points[k][2]) <= 1

\* a steep segment running up and to the left
RoadIsGapFreePathWitness ==
    /\ lastLine = <<1, -1, -1, 3>>
    /\ localRoads # <<>>
    /\ Len(localRoads[1].points) = 5

(***************************************************************************)
(* Properties of the traffic ticks.                                        *)
(***************************************************************************)
\* the step is one call of updateTraffic on a city that has roads
TickStep == updates' = updates + 1 /\ roads # <<>>

\* the point lies in one of the circles captured by generateTraffic
InCapturedCircle(x, y) == \E area \in CircleAreas : isInsideCircle(x, y, area)

\* C21: after generateTraffic and any sequence of updateTraffic calls, no
\* car is inside a park or fountain circle captured by generateTraffic.
CarsOutsideObstacles ==
    \A c \in 1..Len(cars) : ~ InCapturedCircle(cars[c].x, cars[c].y)

\* a car stands next to the fountain after a tick that rejected its move
\* into it
CarsOutsideObstaclesWitness ==
    /\ updates >= 1
    /\ Len(cars) = 1
    /\ fountainArea # <<>>
    /\ lastTick.cruised[1].x = cars[1].x
    /\ lastTick.cruised[1].roadProgress >= skipAhead
    /\ cars[1].vx # 0
    /\ isInsideCircle(cars[1].x + TruncDiv(cars[1].vx * lastTick.deltaTime, 100),
                      cars[1].y, fountainArea)

\* position + velocity * deltaTime of car c for the tick being taken
ProposedX(c) == cars[c].x + TruncDiv(cars[c].vx * lastTick'.deltaTime, 100)

ProposedY(c) == cars[c].y + TruncDiv(cars[c].vy * lastTick'.deltaTime, 100)

\* (speed / 500) * deltaTime of car c for the tick being taken, in thousandths
RegularAdvance(c) == (cars[c].speed * lastTick'.deltaTime) \div (10 * progressScale)

\* the cruising step of the tick being taken rejects the move of car c
CruiseRejects(c) ==
    /\ InCapturedCircle(ProposedX(c), ProposedY(c))
    /\ lastTick'.cruised[c].x = cars[c].x
    /\ lastTick'.cruised[c].y = cars[c].y
    /\ lastTick'.cruised[c].roadProgress =
          cars[c].roadProgress + skipAhead + RegularAdvance(c)

\* the cruising step of the tick being taken accepts the move of car c
CruiseAccepts(c) ==
    /\ ~ InCapturedCircle(ProposedX(c), ProposedY(c))
    /\ lastTick'.cruised[c].x = ProposedX(c)
    /\ lastTick'.cruised[c].y = ProposedY(c)
    /\ lastTick'.cruised[c].roadProgress = cars[c].roadProgress + RegularAdvance(c)

\* C22: the cruising step of a tick leaves a car where it is and advances
\* its roadProgress by 0.1 + (speed/500)*deltaTime when the proposed position
\* is inside a park or the fountain, and otherwise moves it to the proposed
\* position and advances roadProgress by (speed/500)*deltaTime; the car ends
\* the tick in that state unless its roadProgress has reached 1.0.
CruisingStepEffect ==
    [][TickStep =>
          \A c \in 1..Len(cars) :
             /\ CruiseRejects(c) \/ CruiseAccepts(c)
             /\ lastTick'.cruised[c].roadIndex = cars[c].roadIndex
             /\ lastTick'.cruised[c].roadProgress < 1000
                   => cars'[c] = lastTick'.cruised[c]]_vars

\* a car spawned halfway down the spoke at 50 units/s has been held in
\* front of the fountain for one frame of 0.02 s
CruisingStepEffectWitness ==
    /\ updates = 1
    /\ lastTick.deltaTime = 2
    /\ Len(cars) = 1
    /\ cars[1].x = 6500
    /\ cars[1].vx = 5000
    /\ cars[1].roadProgress = 500 + skipAhead + 2

\* C23: a car's roadProgress is in [0,1] after spawn and at the end of
\* every updateTraffic tick; when the advance of the tick, the +0.1 jump
\* included, brought it to 1.0 or more, the tick has reset it below 1.
ProgressInUnitRange ==
    \A c \in 1..Len(cars) :
       /\ cars[c].roadProgress >= 0
       /\ cars[c].roadProgress <= 1000
       /\ (updates >= 1 /\ roads # <<>>
           /\ lastTick.cruised[c].roadProgress >= 1000)
             => cars[c].roadProgress < 1000

\* a car held in front of the fountain circle at progress 0.95 was taken
\* past 1.0 by the jump and put back at the second test point of its road
ProgressInUnitRangeWitness ==
    /\ updates = 1
    /\ Len(cars) = 1
    /\ lastTick.deltaTime = 2
    /\ lastTick.cruised[1].roadProgress = 950 + skipAhead + 2
    /\ cars[1].roadProgress = 200
    /\ cars[1].x = 19000

\* car c reached the end of its road in the tick being taken
ReachesEnd(c) == lastTick'.cruised[c].roadProgress >= 1000

\* the points of the road car c has after the chance of a reassignment
SwitchedPoints(c) == roads[lastTick'.road[c] + 1].points

\* the index in points of the candidate at parametric position a/5
CandidateIndex(points, a) == (a * (Len(points) - 1)) \div testPoints

\* the candidate at a/5 is within the screen margin and outside all obstacles
Qualifies(points, a) ==
    LET pt == points[CandidateIndex(points, a) + 1]
    IN /\ pt[1] >= trafficMargin /\ pt[1] <= trafficScreen[1] - trafficMargin
       /\ pt[2] >= trafficMargin /\ pt[2] <= trafficScreen[2] - trafficMargin
       /\ ~ InCapturedCircle(100 * pt[1], 100 * pt[2])

\* a is the first candidate of the road that qualifies
FirstQualifying(points, a) ==
    /\ Qualifies(points, a)
    /\ \A b \in 0..(a - 1) : ~ Qualifies(points, b)

\* the car stands on the candidate at a/5
StandsOn(car, points, a) ==
    /\ car.x = 100 * points[CandidateIndex(points, a) + 1][1]
    /\ car.y = 100 * points[CandidateIndex(points, a) + 1][2]

\* the velocity of the car points from the candidate at a/5 to the next
\* point of the road and has the magnitude of the car's speed, each
\* component rounded towards zero
HeadsAlong(car, points, a) ==
    LET k == CandidateIndex(points, a) + 1
    IN /\ k < Len(points)
       /\ LET dx == points[k + 1][1] - points[k][1]
              dy == points[k + 1][2] - points[k][2]
          IN /\ Abs(car.vx * dy - car.vy * dx) <= Abs(dx) + Abs(dy)
             /\ car.vx * dx + car.vy * dy >= 0
             /\ car.vx * car.vx + car.vy * car.vy <= car.speed * car.speed
             /\ (Abs(car.vx) + 1) * (Abs(car.vx) + 1)
                + (Abs(car.vy) + 1) * (Abs(car.vy) + 1) >= car.speed * car.speed

\* a restart that always ends with roadProgress 0 and a velocity towards
\* the next point: the car is put on the first qualifying candidate, its
\* roadProgress is 0 and its velocity points to the next point of the road
RestartAtProgressZero ==
    [][TickStep =>
          \A c \in 1..Len(cars) : \A a \in 0..(testPoints - 1) :
             (ReachesEnd(c) /\ FirstQualifying(SwitchedPoints(c), a))
                => /\ StandsOn(cars'[c], SwitchedPoints(c), a)
                   /\ cars'[c].roadProgress = 0
                   /\ HeadsAlong(cars'[c], SwitchedPoints(c), a)]_vars

\* C24: when a car's roadProgress reaches 1.0 in a tick and a candidate of
\* its (possibly reassigned) road at 0, 1/5, ..., 4/5 qualifies, the car
\* ends the tick on the first such candidate, on that road, with
\* roadProgress equal to the candidate's parametric position a/5; its
\* velocity points to the next point of the road with the magnitude of its
\* speed when the candidate has a next point, and is what it was after the
\* cruising step when the candidate is the last point of the road.
RestartAtCandidate ==
    [][TickStep =>
          \A c \in 1..Len(cars) : \A a \in 0..(testPoints - 1) :
             (ReachesEnd(c) /\ FirstQualifying(SwitchedPoints(c), a))
                => /\ StandsOn(cars'[c], SwitchedPoints(c), a)
                   /\ cars'[c].roadIndex = lastTick'.road[c]
                   /\ cars'[c].roadProgress = (1000 * a) \div testPoints
                   /\ cars'[c].speed = cars[c].speed
                   /\ IF CandidateIndex(SwitchedPoints(c), a) + 1
                            < Len(SwitchedPoints(c))
                      THEN HeadsAlong(cars'[c], SwitchedPoints(c), a)
                      ELSE /\ cars'[c].vx = lastTick'.cruised[c].vx
                           /\ cars'[c].vy = lastTick'.cruised[c].vy]_vars

\* a car has been put back on the second test point of the road whose
\* start lies in a park, with roadProgress 0.2
RestartAtCandidateWitness ==
    /\ updates >= 1
    /\ Len(cars) = 1
    /\ lastTick.cruised[1].roadProgress >= 1000
    /\ cars[1].roadIndex = 0
    /\ Len(roads) = 3
    /\ cars[1].x = 19000
    /\ cars[1].roadProgress = 200
    /\ cars[1].vx = - cars[1].speed

\* C25: when a car's roadProgress reaches 1.0 in a tick and none of the 5
\* candidates of its (possibly reassigned, non-empty) road qualifies, the
\* car ends the tick with roadIndex (roadIndex + 1) mod roadCount counted
\* from the road after the reassignment, roadProgress 0, and the position
\* and velocity it had after the cruising step.
FailedTransitionEffect ==
    [][TickStep =>
          \A c \in 1..Len(cars) :
             (/\ ReachesEnd(c)
              /\ SwitchedPoints(c) # <<>>
              /\ \A a \in 0..(testPoints - 1) : ~ Qualifies(SwitchedPoints(c), a))
                => /\ cars'[c].roadIndex = (lastTick'.road[c] + 1) % Len(roads)
                   /\ cars'[c].roadProgress = 0
                   /\ cars'[c].x = lastTick'.cruised[c].x
                   /\ cars'[c].y = lastTick'.cruised[c].y
                   /\ cars'[c].vx = lastTick'.cruised[c].vx
                   /\ cars'[c].vy = lastTick'.cruised[c].vy]_vars

\* a car that ran for 10 s was reassigned to the third of three roads, a
\* single point inside a park: it is on the first road again, where the
\* cruising step left it, with roadProgress 0
FailedTransitionEffectWitness ==
    /\ updates >= 1
    /\ Len(cars) = 1
    /\ Len(roads) = 3
    /\ lastTick.deltaTime = 1000
    /\ lastTick.cruised[1].roadProgress >= 1000
    /\ lastTick.road[1] = 2
    /\ cars[1].roadProgress = 0
    /\ cars[1].roadIndex = 0
    /\ cars[1].x = lastTick.cruised[1].x
    /\ cars[1].x < 15000

\* C28: a car that has speed 0 after spawn is stuck: no updateTraffic call
\* changes its position, velocity, roadIndex or roadProgress, so it never
\* reaches a transition.
StoppedCarsStay ==
    [][TickStep =>
          \A c \in 1..Len(cars) :
             cars[c].speed = 0
                => /\ cars'[c] = cars[c]
                   /\ ~ ReachesEnd(c)]_vars

\* a car spawned on the road that is a single point has been through two
\* calls of updateTraffic, one of them of 10 s
StoppedCarsStayWitness ==
    /\ updates = 2
    /\ lastTick.deltaTime = 1000
    /\ Len(cars) = 1
    /\ cars[1].speed = 0
    /\ cars[1].vx = 0
    /\ cars[1].vy = 0
    /\ cars[1].roadIndex = 1
    /\ cars[1].x = 10000
    /\ cars[1].y = 10000

(***************************************************************************)
(* Properties of the circle tests.                                         *)
(***************************************************************************)
\* C26: TrafficGenerator::isInsideCircle and
\* BuildingPlacementSystem::isInsideCircle return the same answer for every
\* stored circle and query point.
SameCircleAnswers ==
    (circleTest.traffic # "unasked" /\ circleTest.placement # "unasked")
       => circleTest.traffic = circleTest.placement

(***************************************************************************)
(* Properties of the input handler.                                        *)
(***************************************************************************)
\* the step is one call of processInput that is not a stuttering step
FrameStep ==
    /\ keysPressed' = [key \in Keys |-> key \in glfwKeys]
    /\ UNCHANGED glfwKeys
    /\ <<keysPressed, lastFrame, config>>' # <<keysPressed, lastFrame, config>>

\* the action of the key is carried out in the frame being taken
ActionTaken(key) ==
    IF key = "L" THEN config'.skylineType # config.skylineType
    ELSE config'.fountainRadius # config.fountainRadius

\* C27: a key-triggered action is carried out in a frame if and only if its
\* key is pressed in this frame and was not pressed in the previous one, so
\* a held key fires once and a release followed by a press fires again.
KeysAreEdgeTriggered ==
    [][FrameStep
          => \A key \in Keys :
                /\ key \in lastFrame'.fired
                      <=> (key \in glfwKeys /\ key \notin lastFrame.held)
                /\ ActionTaken(key) <=> key \in lastFrame'.fired]_vars

\* F has been held for two frames: it fired in the first one, giving the
\* radius 25, and not in the second
KeysAreEdgeTriggeredWitness ==
    /\ lastFrame.held = {"F"}
    /\ lastFrame.fired = {}
    /\ keysPressed["F"]
    /\ config.fountainRadius = 25
    /\ config.skylineType = "MIXED"

(***************************************************************************)
(* Properties of traffic on a city that changes.                           *)
(***************************************************************************)
\* the obstacles of the city and those captured by generateTraffic
ObstacleData == <<parks, fountain, screenWidth, screenHeight>>

CapturedData == <<parkAreas, fountainArea, trafficScreen>>

\* C29: updateTraffic leaves the obstacles of the city and the park list,
\* fountain and screen size captured by the most recent generateTraffic
\* unchanged, and decides every move by the captured data alone; a change
\* of the city's obstacles by a load does not change the captured data.
TicksUseCapturedObstacles ==
    [][/\ TickStep
          => /\ UNCHANGED <<ObstacleData, CapturedData>>
             /\ \A c \in 1..Len(cars) :
                   IF InCapturedCircle(ProposedX(c), ProposedY(c))
                   THEN /\ lastTick'.cruised[c].x = cars[c].x
                        /\ lastTick'.cruised[c].y = cars[c].y
                   ELSE /\ lastTick'.cruised[c].x = ProposedX(c)
                        /\ lastTick'.cruised[c].y = ProposedY(c)
             /\ \A c \in 1..Len(cars) :
                   (/\ ReachesEnd(c)
                    /\ \A a \in 0..(testPoints - 1) :
                          ~ Qualifies(SwitchedPoints(c), a))
                      => /\ cars'[c].x = lastTick'.cruised[c].x
                         /\ cars'[c].y = lastTick'.cruised[c].y
       /\ ObstacleData' # ObstacleData => UNCHANGED <<CapturedData, cars>>]_vars

\* the loaded city has no fountain, and a car has been held for a frame in
\* front of the fountain captured when it was generated
TicksUseCapturedObstaclesWitness ==
    /\ fountain = <<>>
    /\ parks = <<>>
    /\ fountainArea # <<>>
    /\ updates = 1
    /\ lastTick.deltaTime = 2
    /\ Len(cars) = 1
    /\ cars[1].x = 6500
    /\ cars[1].roadProgress > 500 + skipAhead

(***************************************************************************)
(* Properties of the fountain field.                                       *)
(***************************************************************************)
\* the step is the return of generateCity
GenerateCityReturns == pc = "finish" /\ pc' = "idle"

\* C30: when generateCity completes CityData.fountain is empty for every
\* configuration, fountainRadius > 0 included, also when the city it
\* replaces had a fountain; the fountain test of tryPlaceBuilding and that
\* of the traffic then reject nothing, not even at the canvas centre.
FountainFieldEmpty ==
    [][GenerateCityReturns =>
          /\ fountain' = <<>>
          /\ \A width \in {1, 60}, depth \in {1, 60} :
                ~ collidesWithFountain(screenWidth \div 2, screenHeight \div 2,
                                       width, depth, fountain')
          /\ ~ isInsideCircle(100 * (screenWidth \div 2),
                              100 * (screenHeight \div 2), fountain')]_vars

\* a city generated with a fountain radius of 2 holds the fountain circle
\* as the last park, and no fountain
FountainFieldEmptyWitness ==
    /\ CityGenerated
    /\ config.fountainRadius > 0
    /\ config.numParks = 1
    /\ Len(parks) = 2
    /\ parks[2] = midpointCircle(screenWidth \div 2, screenHeight \div 2,
                                 config.fountainRadius)
    /\ fountain = <<>>

=============================================================================
